---- MODULE Spec2Model ----
(***************************************************************************)
(* Model of the JobsServer backend: the admin mutation handlers of the     *)
(* five resources (jobs, sarkari jobs, internships, walking,               *)
(* certifications) over a DynamoDB-like document store, and the listing    *)
(* pipeline (fetch, filter, search, sort, paginate).                       *)
(*                                                                         *)
(* The tables of the resources are independent of one another, so a        *)
(* behaviour follows the table of one resource, fixed in the initial       *)
(* state (variable res).  Request handlers are processes: each awaited     *)
(* store call is one atomic step of the store, and the synchronous code    *)
(* between two awaits belongs to the step of the call that precedes it.    *)
(***************************************************************************)
EXTENDS Integers, Sequences, FiniteSets, TLC

VARIABLES
  res,        \* the resource whose table and controller are followed
  table,      \* the table: key -> item (NoItem where no item is stored)
  now,        \* the clock read by new Date(); it advances when a request arrives
  pc,         \* per handler: position in the handler
  req,        \* per handler: the request (op, id, patch)
  Items,      \* per handler: scanResult.Items
  existing,   \* per handler: scanResult.Items[0] / existing.Item
  newData,    \* per handler: the item of the pending put
  expr,       \* per handler: UpdateExpression of the pending update
  stamp,      \* per handler: value bound to :lastUpdated
  todo,       \* per handler: keys deleteJob has still to delete
  resp,       \* per handler: status of the response sent
  listed,     \* the last listing request and its response
  calls,      \* the outbound calls issued so far and their outcomes, in issue order
  sent,       \* per handler: the body of the response sent
  bulk        \* per handler: progress of a bulk upload

vars == <<res, table, now, pc, req, Items, existing, newData, expr, stamp, todo, resp, listed, calls, sent, bulk>>

----------------------------------------------------------------------------
(* Bounds *)

\* requests started in one behaviour
MaxCalls == 2
\* number of fields in a request body
MaxPatchLen == 2

----------------------------------------------------------------------------
(* Values *)

Procs == {"h1", "h2"}
Resources == {"jobs", "sarkari", "internships", "walking", "certifications"}
Categories == {"X", "Y", "Z"}
Ids == {"a", "b"}
Titles == {"t0", "t1"}
Companies == {"c0", "c1"}
Links == {"l0"}

\* an attribute the item does not have
Absent == "absent"
\* the partition of a table whose key is the id alone
NoPartition == "-"
\* an item without lastUpdated
NoTime == -1
\* no response sent yet
NoResp == "none"
\* no response body was sent
NoBody == [kind |-> "none"]
\* no bulk upload is in progress
NoBulk == [next |-> 0, created |-> 0, errors |-> 0]

Fields == {"category", "id", "title", "company", "link"}

\* The attributes of an item.  category is the partition attribute of jobs
\* and internships (organization for sarkari jobs) and an ordinary attribute
\* of walking and certifications; id is the sort attribute (jobId for jobs
\* and sarkari jobs); title is role/postName/title; company is
\* companyName/provider; status is status (isActive for internships);
\* postedAt is the timestamp the listing sorts by: postedOn for jobs,
\* createdAt for sarkari jobs (whose create sets postedOn instead),
\* postedAt for the others.
NoItem ==
  [category |-> Absent, id |-> Absent, title |-> Absent, company |-> Absent,
   link |-> Absent, lastUpdated |-> NoTime, status |-> Absent, postedAt |-> NoTime]

Partitions == Categories \cup {NoPartition}
Keys == Partitions \X Ids

\* resources whose key is (partition attribute, sort attribute)
Partitioned == {"jobs", "sarkari", "internships"}

\* The key an item is stored under in the table of resource r.
KeyOf(r, item) ==
  IF r \in Partitioned THEN <<item.category, item.id>> ELSE <<NoPartition, item.id>>

EmptyTable == [k \in Keys |-> NoItem]

----------------------------------------------------------------------------
(* The document store *)

\* PutCommand: the item replaces whatever is stored under its key.
PutItem(t, r, item) == [t EXCEPT ![KeyOf(r, item)] = item]

\* DeleteCommand: deleting a key that holds no item is not an error.
DeleteItem(t, k) == [t EXCEPT ![k] = NoItem]

\* ScanCommand with FilterExpression 'id = :id'.
ScanById(t, id) == {t[k] : k \in {kk \in Keys : t[kk] # NoItem /\ t[kk].id = id}}

\* The key attributes an UpdateCommand gives an item it has to create.
KeyItem(r, k) ==
  IF r \in Partitioned
    THEN [NoItem EXCEPT !.category = k[1], !.id = k[2]]
    ELSE [NoItem EXCEPT !.id = k[2]]

----------------------------------------------------------------------------
(* Request bodies: a sequence of <<field, value>> in the order of the      *)
(* body's keys (Object.keys order).                                        *)

FieldValues(f) ==
  CASE f = "category" -> Categories
    [] f = "id" -> Ids
    [] f = "title" -> Titles
    [] f = "company" -> Companies
    [] f = "link" -> Links

\* the attributes the bodies of sequential requests are built from
BodyFields == {"category", "id", "title"}

Pairs == UNION {{<<f, v>> : v \in FieldValues(f)} : f \in BodyFields}

PatchFields(patch) == {patch[i][1] : i \in 1..Len(patch)}

PatchHas(patch, f) == f \in PatchFields(patch)

PatchGet(patch, f) ==
  LET i == CHOOSE j \in 1..Len(patch) : patch[j][1] = f IN patch[i][2]

\* updates[f], undefined when the body has no f
PatchValue(patch, f) == IF PatchHas(patch, f) THEN PatchGet(patch, f) ELSE Absent

IsPatch(s) == \A i, j \in 1..Len(s) : i # j => s[i][1] # s[j][1]

PatchesOfLen(n) == {s \in [1..n -> Pairs] : IsPatch(s)}

\* the bodies of at most MaxPatchLen fields
Bodies == UNION {PatchesOfLen(n) : n \in 0..MaxPatchLen}

\* { ...existing, ...updates }
Merge(item, patch) ==
  [f \in DOMAIN item |-> IF PatchHas(patch, f) THEN PatchGet(patch, f) ELSE item[f]]

----------------------------------------------------------------------------
(* The UpdateExpression 'SET ...' as the sequence of its tokens after SET: *)
(* a field name stands for the action '#f = :f', "," for a comma.          *)

Comma == ","

\* the attributes the update handlers of a resource never write
KeyFields(r) == IF r \in Partitioned THEN {"id", "category"} ELSE {"id"}

RECURSIVE ExprFrom(_, _, _)
\* Object.keys(updates).forEach((key, index) => ...) from index i on
ExprFrom(patch, keys, i) ==
  IF i > Len(patch) THEN <<>>
  ELSE (IF patch[i][1] \notin keys
          THEN <<patch[i][1]>> \o (IF i < Len(patch) THEN <<Comma>> ELSE <<>>)
          ELSE <<>>)
       \o ExprFrom(patch, keys, i + 1)

\* updateInternship appends ', lastUpdated = :lastUpdated'; updateJob and
\* updateSarkariJob append nothing.
TouchesLastUpdated(r) == r = "internships"

BuildExpr(r, patch) ==
  ExprFrom(patch, KeyFields(r), 1)
    \o (IF TouchesLastUpdated(r) THEN <<Comma, "lastUpdated">> ELSE <<>>)

\* updateCertification's fixed expression
CertExpr == <<"title", Comma, "company", Comma, "category", Comma, "link", Comma, "lastUpdated">>

\* The store's parser: SET action (, action)*
WellFormed(e) ==
  /\ Len(e) % 2 = 1
  /\ \A i \in 1..Len(e) : (e[i] = Comma) <=> (i % 2 = 0)

\* the attributes a well-formed expression sets
ExprFields(e) == {e[i] : i \in 1..Len(e)} \ {Comma}

\* UpdateCommand on key k: sets the attributes of the expression on the item
\* stored under k, creating the item from the key when none is stored.
UpdateItem(t, r, k, e, patch, ts) ==
  LET base == IF t[k] # NoItem THEN t[k] ELSE KeyItem(r, k)
      new == [f \in DOMAIN base |->
                IF f \in ExprFields(e)
                  THEN (IF f = "lastUpdated" THEN ts ELSE PatchGet(patch, f))
                  ELSE base[f]]
  IN [t EXCEPT ![k] = new]

----------------------------------------------------------------------------
(* Request handlers *)

NoReq == [op |-> "none", id |-> Absent, patch |-> <<>>]

\* the handler's local variables before a request
Reset(p) ==
  /\ req' = [req EXCEPT ![p] = NoReq]
  /\ Items' = [Items EXCEPT ![p] = {}]
  /\ existing' = [existing EXCEPT ![p] = NoItem]
  /\ newData' = [newData EXCEPT ![p] = NoItem]
  /\ expr' = [expr EXCEPT ![p] = <<>>]
  /\ stamp' = [stamp EXCEPT ![p] = NoTime]
  /\ todo' = [todo EXCEPT ![p] = {}]
  /\ resp' = [resp EXCEPT ![p] = NoResp]

\* res.status(s).json(...): the response ends the handler
Respond(p, s) ==
  /\ resp' = [resp EXCEPT ![p] = s]
  /\ pc' = [pc EXCEPT ![p] = "done"]

\* the attributes updateCertification requires in the body
CertRequired == {"title", "company", "category", "link"}

\* A PUT /:id request arrives.  The update handlers of jobs, sarkari jobs
\* and internships first scan for the id, updateWalking gets the key,
\* updateCertification validates the body and issues its update at once.
StartUpdate(p, id, patch) ==
  /\ pc[p] = "idle"
  /\ now < MaxCalls
  /\ now' = now + 1
  /\ req' = [req EXCEPT ![p] = [op |-> "update", id |-> id, patch |-> patch]]
  /\ UNCHANGED <<bulk, sent, calls, listed, res, table, Items, existing, newData, todo>>
  /\ IF res = "certifications"
       THEN IF CertRequired \subseteq PatchFields(patch)
              THEN /\ expr' = [expr EXCEPT ![p] = CertExpr]
                   /\ stamp' = [stamp EXCEPT ![p] = now']
                   /\ pc' = [pc EXCEPT ![p] = "upd"]
                   /\ UNCHANGED resp
              ELSE /\ Respond(p, "400")
                   /\ UNCHANGED <<expr, stamp>>
       ELSE /\ pc' = [pc EXCEPT ![p] = IF res = "walking" THEN "get" ELSE "scan"]
            /\ UNCHANGED <<expr, stamp, resp>>

\* A DELETE /:id request arrives.  deleteWalking and deleteCertification
\* issue the delete of the key at once, the others first scan for the id.
StartDelete(p, id) ==
  /\ pc[p] = "idle"
  /\ now < MaxCalls
  /\ now' = now + 1
  /\ req' = [req EXCEPT ![p] = [op |-> "delete", id |-> id, patch |-> <<>>]]
  /\ UNCHANGED <<bulk, sent, calls, listed, res, table, Items, existing, newData, expr, stamp, resp>>
  /\ IF res \in Partitioned
       THEN /\ pc' = [pc EXCEPT ![p] = "scan"]
            /\ UNCHANGED todo
       ELSE /\ pc' = [pc EXCEPT ![p] = "rm"]
            /\ todo' = [todo EXCEPT ![p] = {<<NoPartition, id>>}]

\* updates.category is set and differs from the stored category
CategoryChanges(r, item, patch) ==
  /\ r \in {"jobs", "internships"}
  /\ PatchValue(patch, "category") # Absent
  /\ PatchValue(patch, "category") # item.category

\* mutant of Relocated: the new item is built from the patch alone,
\* { ...updates } under the key, without the attributes of the existing item
Relocated_PatchOnly(r, item, patch, ts) ==
  LET merged == [Merge([NoItem EXCEPT !.id = item.id], patch)
                   EXCEPT !.category = PatchValue(patch, "category")]
  IN IF TouchesLastUpdated(r) THEN [merged EXCEPT !.lastUpdated = ts] ELSE merged

\* newJobData / newInternshipData
Relocated(r, item, patch, ts) ==
  LET merged == [Merge(item, patch) EXCEPT !.category = PatchValue(patch, "category")]
  IN IF TouchesLastUpdated(r) THEN [merged EXCEPT !.lastUpdated = ts] ELSE merged

\* The scan of an update handler returns: 404 when nothing matches;
\* otherwise the handler takes Items[0] and issues either the put of the
\* relocation or the field-level update.
ScanForUpdate(p) ==
  /\ pc[p] = "scan"
  /\ req[p].op = "update"
  /\ LET found == ScanById(table, req[p].id) IN
       /\ Items' = [Items EXCEPT ![p] = found]
       /\ IF found = {}
            THEN /\ Respond(p, "404")
                 /\ UNCHANGED <<existing, newData, expr, stamp>>
            ELSE \E first \in found :
                   /\ existing' = [existing EXCEPT ![p] = first]
                   /\ UNCHANGED resp
                   /\ IF CategoryChanges(res, first, req[p].patch)
                        THEN /\ newData' = [newData EXCEPT ![p] =
                                              Relocated(res, first, req[p].patch, now)]
                             /\ pc' = [pc EXCEPT ![p] = "put"]
                             /\ UNCHANGED <<expr, stamp>>
                        ELSE /\ expr' = [expr EXCEPT ![p] = BuildExpr(res, req[p].patch)]
                             /\ stamp' = [stamp EXCEPT ![p] = now]
                             /\ pc' = [pc EXCEPT ![p] = "upd"]
                             /\ UNCHANGED newData
  /\ UNCHANGED <<bulk, sent, calls, listed, res, table, now, req, todo>>

\* mutant of NotFoundOnDelete: deleteJob answers 404 like the others
NotFoundOnDelete_Always404(r) == "404"

\* mutant of NotFoundOnDelete: every delete handler treats not-found as
\* already deleted
NotFoundOnDelete_Always200(r) == "200"

\* the response of a delete handler whose scan matched nothing
NotFoundOnDelete(r) == IF r = "jobs" THEN "200" ELSE "404"

\* mutant of DeleteKeys: deleteJob deletes the first match only
DeleteKeys_FirstOnly(r, found, first, id) == {<<first.category, id>>}

\* the keys a delete handler deletes: deleteJob every scanned match, the
\* others the first one
DeleteKeys(r, found, first, id) ==
  IF r = "jobs" THEN {<<job.category, id>> : job \in found}
  ELSE {<<first.category, id>>}

\* The scan of a delete handler returns.
ScanForDelete(p) ==
  /\ pc[p] = "scan"
  /\ req[p].op = "delete"
  /\ LET found == ScanById(table, req[p].id) IN
       /\ Items' = [Items EXCEPT ![p] = found]
       /\ IF found = {}
            THEN /\ Respond(p, NotFoundOnDelete(res))
                 /\ UNCHANGED <<existing, todo>>
            ELSE \E first \in found :
                   /\ existing' = [existing EXCEPT ![p] = first]
                   /\ todo' = [todo EXCEPT ![p] = DeleteKeys(res, found, first, req[p].id)]
                   /\ pc' = [pc EXCEPT ![p] = "rm"]
                   /\ UNCHANGED resp
  /\ UNCHANGED <<bulk, sent, calls, listed, res, table, now, req, newData, expr, stamp>>

\* updateWalking's get returns: 404 when the key holds no item, otherwise
\* the put of { ...existing.Item, ...updateData } is issued.
GetWalking(p) ==
  /\ pc[p] = "get"
  /\ LET item == table[<<NoPartition, req[p].id>>] IN
       IF item = NoItem
         THEN /\ Respond(p, "404")
              /\ UNCHANGED <<existing, newData>>
         ELSE /\ existing' = [existing EXCEPT ![p] = item]
              /\ newData' = [newData EXCEPT ![p] = Merge(item, req[p].patch)]
              /\ pc' = [pc EXCEPT ![p] = "put"]
              /\ UNCHANGED resp
  /\ UNCHANGED <<bulk, sent, calls, listed, res, table, now, req, Items, expr, stamp, todo>>

\* mutant of RelocPut: the put is not awaited, the delete of the old key
\* is issued while the new item is not stored
RelocPut_NotAwaited(p) ==
  /\ pc[p] = "put"
  /\ res \in Partitioned
  /\ pc' = [pc EXCEPT ![p] = "del"]
  /\ UNCHANGED <<bulk, sent, calls, listed, res, table, now, req, Items, existing, newData, expr, stamp, todo, resp>>

\* The put of a relocation completes; the delete of the old key is issued.
RelocPut(p) ==
  /\ pc[p] = "put"
  /\ res \in Partitioned
  /\ table' = PutItem(table, res, newData[p])
  /\ pc' = [pc EXCEPT ![p] = "del"]
  /\ UNCHANGED <<bulk, sent, calls, listed, res, now, req, Items, existing, newData, expr, stamp, todo, resp>>

\* The delete of the old (oldCategory, id) key completes.
RelocDelete(p) ==
  /\ pc[p] = "del"
  /\ table' = DeleteItem(table, <<existing[p].category, req[p].id>>)
  /\ Respond(p, "200")
  /\ UNCHANGED <<bulk, sent, calls, listed, res, now, req, Items, existing, newData, expr, stamp, todo>>

\* updateWalking's put completes.
WalkingPut(p) ==
  /\ pc[p] = "put"
  /\ res = "walking"
  /\ table' = PutItem(table, res, newData[p])
  /\ Respond(p, "200")
  /\ UNCHANGED <<bulk, sent, calls, listed, res, now, req, Items, existing, newData, expr, stamp, todo>>

\* the key of the pending field-level update
UpdateKey(r, p) ==
  IF r \in Partitioned THEN <<existing[p].category, req[p].id>> ELSE <<NoPartition, req[p].id>>

\* The UpdateCommand completes: the store rejects a malformed expression
\* (the handler's catch answers 500), otherwise it applies it.
FieldUpdate(p) ==
  /\ pc[p] = "upd"
  /\ IF WellFormed(expr[p])
       THEN /\ table' = UpdateItem(table, res, UpdateKey(res, p), expr[p], req[p].patch, stamp[p])
            /\ Respond(p, "200")
       ELSE /\ Respond(p, "500")
            /\ UNCHANGED table
  /\ UNCHANGED <<bulk, sent, calls, listed, res, now, req, Items, existing, newData, expr, stamp, todo>>

\* One DeleteCommand of a delete handler completes.
DeleteStep(p) ==
  /\ pc[p] = "rm"
  /\ \E k \in todo[p] :
       /\ table' = DeleteItem(table, k)
       /\ todo' = [todo EXCEPT ![p] = @ \ {k}]
       /\ IF todo[p] = {k}
            THEN Respond(p, "200")
            ELSE UNCHANGED <<pc, resp>>
  /\ UNCHANGED <<bulk, sent, calls, listed, res, now, req, Items, existing, newData, expr, stamp>>

\* A pending store call throws; the handler's catch answers 500.
StoreFail(p) ==
  /\ pc[p] \in {"scan", "get", "put", "del", "upd", "rm", "cput", "fetch"}
  /\ Respond(p, "500")
  /\ UNCHANGED <<bulk, sent, calls, listed, res, table, now, req, Items, existing, newData, expr, stamp, todo>>

\* The handler is free for the next request.
Return(p) ==
  /\ pc[p] = "done"
  /\ pc' = [pc EXCEPT ![p] = "idle"]
  /\ Reset(p)
  /\ UNCHANGED <<bulk, sent, calls, listed, res, table, now>>

----------------------------------------------------------------------------
(* Listing *)

\* no listing request answered yet
NoList == [endpoint |-> "none"]

\* listing requests in one behaviour
MaxLists == 1
\* largest page and limit of a listing request
MaxPage == 3
MaxLimit == 3

\* The text of a value, as the sequence of its characters.
Chars(v) ==
  CASE v = "t0" -> <<"N", "o", "d", "e", " ", "J", "S", " ", "D", "e", "v", "e", "l", "o", "p", "e", "r">>
    [] v = "t1" -> <<"G", "o", "-", "D", "e", "v">>
    [] v = "t2" -> <<"N", "o", "d", "e", "J", "S", " ", "D", "e", "v", "e", "l", "o", "p", "e", "r">>
    [] v = "t3" -> <<"G", "o", " ", "J", "S", " ", "!">>
    [] v = "c0" -> <<"A", "c", "m", "e">>
    [] v = "c1" -> <<"B", "i", "t", ".", "i", "o">>
    [] v = "X" -> <<"X">>
    [] v = "Y" -> <<"Y">>
    [] v = "Z" -> <<"Z">>
    [] v = "q_none" -> <<"q", "q">>
    [] v = "q_node" -> <<"n", "o", "d", "e">>
    [] v = "q_ACME" -> <<"A", "C", "M", "E">>
    [] v = "q_dot" -> <<"N", "o", "d", "e", ".", "j", "s">>
    [] v = "q_js" -> <<"j", "s", " ">>
    [] v = "q_x" -> <<"x">>
    [] OTHER -> <<>>

\* the free-text queries of a listing request
Queries == {"q_none", "q_node", "q_ACME", "q_dot", "q_js", "q_x"}

\* String.prototype.toLowerCase on one character
LowerChar(c) ==
  CASE c = "A" -> "a" [] c = "B" -> "b" [] c = "C" -> "c" [] c = "D" -> "d"
    [] c = "E" -> "e" [] c = "G" -> "g" [] c = "J" -> "j" [] c = "M" -> "m"
    [] c = "N" -> "n" [] c = "S" -> "s" [] c = "X" -> "x" [] c = "Y" -> "y"
    [] c = "Z" -> "z" [] c = "F" -> "f" [] c = "P" -> "p" [] c = "V" -> "v"
    [] OTHER -> c

toLowerCase(s) == [i \in 1..Len(s) |-> LowerChar(s[i])]

\* the characters the pattern /[^a-z0-9 ]/gi leaves in place
Kept ==
  {"a", "b", "c", "d", "e", "f", "g", "i", "j", "l", "m", "n", "o", "p", "q", "r",
   "s", "t", "v", "x", "y", "z", "A", "B", "C", "D", "E", "F", "G", "J", "M", "N", "P", "S",
   "V", "X", "Y", "Z", " "}

\* s.replace(/[^a-z0-9 ]/gi, '')
Strip(s) == SelectSeq(s, LAMBDA c : c \in Kept)

RECURSIVE TrimStart(_)
TrimStart(s) == IF s # <<>> /\ Head(s) = " " THEN TrimStart(Tail(s)) ELSE s

RECURSIVE TrimEnd(_)
TrimEnd(s) ==
  IF s # <<>> /\ s[Len(s)] = " " THEN TrimEnd(SubSeq(s, 1, Len(s) - 1)) ELSE s

\* String.prototype.trim
Trim(s) == TrimEnd(TrimStart(s))

\* hay.includes(needle)
Includes(hay, needle) ==
  \E i \in 0..(Len(hay) - Len(needle)) : SubSeq(hay, i + 1, i + Len(needle)) = needle

\* field && field.toLowerCase().includes(search)
LowerIncludes(v, search) == v # Absent /\ Includes(toLowerCase(Chars(v)), search)

\* mutant of NormIncludes: the field is not trimmed after stripping
NormIncludes_NoTrim(v, search) ==
  v # Absent /\ Includes(Strip(toLowerCase(Chars(v))), search)

\* field && field.toLowerCase().replace(/[^a-z0-9 ]/gi, '').trim().includes(normalizedSearch)
NormIncludes(v, search) ==
  v # Absent /\ Includes(Trim(Strip(toLowerCase(Chars(v)))), search)

\* The search filter an endpoint applies for the query q.  getJobs compares
\* the normalized role and companyName; getSarkariJobs reads title,
\* organization and category, of which a sarkari job has organization only;
\* getAllInternships applies none; getInternshipsByCategory compares title
\* and company; getAllWalking title, company and category;
\* getAllCertifications title, provider and category.
SearchMatches(endpoint, item, q) ==
  LET search == toLowerCase(Chars(q)) IN
  CASE endpoint = "getJobs" ->
         NormIncludes(item.title, Strip(search)) \/ NormIncludes(item.company, Strip(search))
    [] endpoint = "getSarkariJobs" -> LowerIncludes(item.category, search)
    [] endpoint = "getAllInternships" -> TRUE
    [] endpoint = "getInternshipsByCategory" ->
         LowerIncludes(item.title, search) \/ LowerIncludes(item.company, search)
    [] endpoint = "getAllWalking" ->
         \/ LowerIncludes(item.title, search)
         \/ LowerIncludes(item.company, search)
         \/ LowerIncludes(item.category, search)
    [] endpoint = "getAllCertifications" ->
         \/ LowerIncludes(item.title, search)
         \/ LowerIncludes(item.company, search)
         \/ LowerIncludes(item.category, search)

\* The structured filters of an endpoint: the scan's FilterExpression, the
\* query's key condition, or getAllWalking's in-process category filter.
FilterMatches(endpoint, item, category) ==
  CASE endpoint \in {"getJobs", "getSarkariJobs", "getAllInternships"} ->
         item.status = "active" /\ (category # Absent => item.category = category)
    [] endpoint = "getInternshipsByCategory" ->
         item.status = "active" /\ item.category = category
    [] endpoint = "getAllWalking" ->
         category # Absent =>
           item.category # Absent
             /\ toLowerCase(Chars(item.category)) = toLowerCase(Chars(category))
    [] endpoint = "getAllCertifications" -> TRUE

\* the endpoints that sort what the store returns by the recency timestamp
Sorting == {"getJobs", "getSarkariJobs", "getAllInternships", "getInternshipsByCategory"}

\* the value the comparator of an endpoint subtracts for an item: the time,
\* 0 for getSarkariJobs' createdAt || 0, NaN (NoTime) otherwise
SortTime(endpoint, item) ==
  IF item.postedAt = NoTime /\ endpoint = "getSarkariJobs" THEN 0 ELSE item.postedAt

\* the sequences that hold each element of the set S once
Perms(S) ==
  {s \in [1..Cardinality(S) -> S] : \A i, j \in 1..Cardinality(S) : i # j => s[i] # s[j]}

\* The orders in which an endpoint can hold the items S after its sort.  The
\* store returns them in an order of its own.  A comparator that yields NaN
\* for some pair is inconsistent and leaves the order to the engine;
\* otherwise the items are in descending order of the timestamp.
Sorted(endpoint, S) ==
  IF endpoint \notin Sorting \/ \E x \in S : SortTime(endpoint, x) = NoTime
    THEN Perms(S)
    ELSE {s \in Perms(S) :
            \A i, j \in 1..Len(s) :
              i < j => SortTime(endpoint, s[i]) >= SortTime(endpoint, s[j])}

\* Math.ceil(a / b) for b > 0
Ceil(a, b) == (a + b - 1) \div b

\* array.slice(from, to)
Slice(s, from, to) ==
  LET lo == IF from > Len(s) THEN Len(s) ELSE from
      hi == IF to > Len(s) THEN Len(s) ELSE to
  IN IF lo >= hi THEN <<>> ELSE SubSeq(s, lo + 1, hi)

\* the endpoints that paginate; getAllCertifications returns every item
Paginating == Sorting \cup {"getAllWalking"}

\* the listing endpoints of a resource
Endpoints(r) ==
  CASE r = "jobs" -> {"getJobs"}
    [] r = "sarkari" -> {"getSarkariJobs"}
    [] r = "internships" -> {"getAllInternships", "getInternshipsByCategory"}
    [] r = "walking" -> {"getAllWalking"}
    [] r = "certifications" -> {"getAllCertifications"}

\* A limit of the query string is a number; the model counts it in halves,
\* so that 3 stands for limit=1.5.  parseInt(limit) drops the fraction.
ParseInt(halves) == halves \div 2

\* offset, in halves: getAllWalking multiplies the parsed limit, the others
\* compute (page - 1) * limit with the limit as given
Offset(endpoint, page, halves) ==
  IF endpoint = "getAllWalking" THEN (page - 1) * 2 * ParseInt(halves)
  ELSE (page - 1) * halves

\* array.slice(offset, offset + parseInt(limit)); slice drops the fraction
\* of its arguments
PageItems(endpoint, filtered, page, halves) ==
  LET offset == Offset(endpoint, page, halves)
  IN Slice(filtered, offset \div 2, (offset + 2 * ParseInt(halves)) \div 2)

\* Math.ceil(length / limit), of the parsed limit in getAllWalking and of
\* the limit as given in the others
TotalPages(endpoint, total, halves) ==
  IF endpoint = "getAllWalking" THEN Ceil(total, ParseInt(halves))
  ELSE Ceil(2 * total, halves)

\* hasNext: pageNum < totalPages in getAllWalking,
\* offset + parseInt(limit) < length in the others
HasNext(endpoint, total, page, halves) ==
  IF endpoint = "getAllWalking" THEN page < TotalPages(endpoint, total, halves)
  ELSE Offset(endpoint, page, halves) + 2 * ParseInt(halves) < 2 * total

\* The response of a listing endpoint for the items in sorted order and a
\* limit given in halves.
PageResponse(endpoint, sorted, category, q, page, halves) ==
  LET filtered == SelectSeq(sorted, LAMBDA item :
                    q # Absent => SearchMatches(endpoint, item, q))
      total == Len(filtered)
  IN [endpoint |-> endpoint, category |-> category, q |-> q,
      page |-> page, halves |-> halves,
      filtered |-> filtered,
      items |-> IF endpoint \in Paginating
                  THEN PageItems(endpoint, filtered, page, halves) ELSE filtered,
      total |-> total,
      totalPages |-> TotalPages(endpoint, total, halves),
      hasNext |-> HasNext(endpoint, total, page, halves),
      hasPrev |-> page > 1]

\* The response of a listing endpoint for a whole-number limit.
ListResponse(endpoint, sorted, category, q, page, limit) ==
  [limit |-> limit] @@ PageResponse(endpoint, sorted, category, q, page, 2 * limit)

\* the endpoints that add a logo to the items they list
Enriching == {"getAllWalking", "getAllCertifications"}

\* the logo lookups of a listing: getAllWalking and getAllCertifications
\* await Promise.all over the filtered items, one lookup for each, before
\* any slice
LogoLookups(response) ==
  IF response.endpoint \in Enriching
    THEN [i \in 1..Len(response.filtered) |->
            [by |-> response.endpoint, to |-> "logo", outcome |-> "ok"]]
    ELSE <<>>

\* A GET of a listing endpoint: one scan or query of the table, then the
\* search filter, the sort, the logo lookups and the slice in process.
List(endpoint, category, q, page, limit) ==
  /\ now < MaxLists
  /\ now' = now + 1
  /\ endpoint \in Endpoints(res)
  /\ endpoint = "getInternshipsByCategory" => category # Absent
  /\ endpoint = "getAllCertifications" => category = Absent
  /\ LET S == {table[k] : k \in {kk \in Keys :
                  table[kk] # NoItem /\ FilterMatches(endpoint, table[kk], category)}}
     IN \E sorted \in Sorted(endpoint, S) :
          listed' = ListResponse(endpoint, sorted, category, q, page, limit)
  /\ calls' = calls \o LogoLookups(listed')
  /\ UNCHANGED <<bulk, sent, res, table, pc, req, Items, existing, newData, expr, stamp, todo, resp>>

\* the largest limit of a listing whose limit need not be whole, in halves
MaxHalves == 5

\* A GET of a listing endpoint without filters, whose limit is any number
\* of halves from 1 up.
ListPage(endpoint, page, halves) ==
  /\ now < MaxLists
  /\ now' = now + 1
  /\ endpoint \in Endpoints(res) \cap Paginating
  /\ endpoint # "getInternshipsByCategory"
  /\ LET S == {table[k] : k \in {kk \in Keys :
                  table[kk] # NoItem /\ FilterMatches(endpoint, table[kk], Absent)}}
     IN \E sorted \in Sorted(endpoint, S) :
          listed' = PageResponse(endpoint, sorted, Absent, Absent, page, halves)
  /\ calls' = calls \o LogoLookups(listed')
  /\ UNCHANGED <<bulk, sent, res, table, pc, req, Items, existing, newData, expr, stamp, todo, resp>>

----------------------------------------------------------------------------
(* The batch filter of getJobs *)

\* a batch attribute of a stored job: none, a string, a list of strings or
\* a number
NoBatch == [t |-> "none", s |-> <<>>, l |-> <<>>]
StrBatch(s) == [t |-> "S", s |-> s, l |-> <<>>]
ListBatch(l) == [t |-> "L", s |-> <<>>, l |-> l]
NumBatch == [t |-> "N", s |-> <<>>, l |-> <<>>]

Y2024 == <<"2", "0", "2", "4">>
Y2025 == <<"2", "0", "2", "5">>

\* the batch attributes of the stored jobs: createJob stores what the body
\* holds, bulkUploadJobs a list
BatchValues ==
  {NoBatch, StrBatch(<<>>), ListBatch(<<>>), NumBatch,
   StrBatch(Y2024), StrBatch(Y2024 \o <<",", " ">> \o Y2025),
   ListBatch(<<Y2024>>), ListBatch(<<Y2025, Y2024>>), ListBatch(<<Y2025>>)}

\* the sentinel of the batch filter
NotMentioned == "Not Mentioned"

\* the values a request gives to batch
BatchQueries == {Absent, NotMentioned, "2024", "202"}

\* the characters of a batch of a request
BatchChars(b) ==
  CASE b = "2024" -> Y2024
    [] b = "202" -> <<"2", "0", "2">>
    [] b = NotMentioned -> <<"N", "o", "t", " ", "M", "e", "n", "t", "i", "o", "n", "e", "d">>
    [] OTHER -> <<>>

\* attribute_not_exists(a)
AttributeNotExists(a) == a.t = "none"

\* size(a) = n: the size of a string or of a list; the comparison is false
\* for an attribute that has no size
SizeIs(a, n) ==
  CASE a.t = "S" -> Len(a.s) = n
    [] a.t = "L" -> Len(a.l) = n
    [] OTHER -> FALSE

\* contains(a, v): v is a substring of a string, or an element of a list
Contains(a, v) ==
  CASE a.t = "S" -> Includes(a.s, v)
    [] a.t = "L" -> \E i \in 1..Len(a.l) : a.l[i] = v
    [] OTHER -> FALSE

\* mutant of BatchMatches: the sentinel is no special case
BatchMatches_NoSentinel(item, batch) ==
  batch # Absent => Contains(item.batch, BatchChars(batch))

\* the part of the FilterExpression of getJobs that the batch of the
\* request adds
BatchMatches(item, batch) ==
  IF batch = Absent THEN TRUE
  ELSE IF batch = NotMentioned
    THEN AttributeNotExists(item.batch) \/ SizeIs(item.batch, 0)
    ELSE Contains(item.batch, BatchChars(batch))

\* GET /jobs with a batch: the scan with status and batch in its
\* FilterExpression, then the sort and the slice in process.
ListByBatch(batch, page, limit) ==
  /\ now < MaxLists
  /\ now' = now + 1
  /\ res = "jobs"
  /\ LET S == {table[k] : k \in {kk \in Keys :
                  /\ table[kk] # NoItem
                  /\ FilterMatches("getJobs", table[kk], Absent)
                  /\ BatchMatches(table[kk], batch)}}
     IN \E sorted \in Sorted("getJobs", S) :
          listed' = [batch |-> batch] @@ ListResponse("getJobs", sorted, Absent, Absent, page, limit)
  /\ UNCHANGED <<bulk, sent, calls, res, table, pc, req, Items, existing, newData, expr, stamp, todo, resp>>

----------------------------------------------------------------------------
(* The logo resolver *)

Placeholder == "/placeholder-logo.svg"
\* the URL of the logo of the name
LogoUrl == "https://logo.clearbit.com/name.com"
\* the resolver throws to its caller
Throws == "throws"
\* a name that is no string (a number, null, an object)
NotAString == "<not a string>"

\* what the logo service does with a request: the final status it answers,
\* no answer within the 5000 ms, or no connection
HttpOutcomes == {"200", "204", "304", "404", "500", "timeout", "network"}

\* validateStatus: getCompanyLogo of the internships controller accepts a
\* status below 400, the walking and certifications copies one below 500;
\* axios rejects on any other status, on the timeout and on a network error
Resolves(r, outcome) ==
  CASE outcome \in {"200", "204", "304"} -> TRUE
    [] outcome = "404" -> r # "internships"
    [] OTHER -> FALSE

\* mutant of getCompanyLogo: the name is lower-cased outside the try
getCompanyLogo_Unguarded(r, name, outcome) ==
  IF name \in {Absent, NotAString} THEN Throws
  ELSE IF ~Resolves(r, outcome) THEN Placeholder
  ELSE IF r = "internships" THEN LogoUrl
  ELSE IF outcome = "200" THEN LogoUrl ELSE Placeholder

\* getCompanyLogo / getProviderLogo of the controller of resource r.
\* name.toLowerCase() is evaluated inside the try, so a name that is no
\* string ends in the catch like a rejected request.  The internships copy
\* returns the response URL of every response axios resolves with; the
\* other copies return the URL for status 200 only.
getCompanyLogo(r, name, outcome) ==
  IF name \in {Absent, NotAString} THEN Placeholder
  ELSE IF ~Resolves(r, outcome) THEN Placeholder
  ELSE IF r = "internships" THEN LogoUrl
  ELSE IF outcome = "200" THEN LogoUrl ELSE Placeholder

----------------------------------------------------------------------------
(* Create and fetch by identifier *)

\* requiredFields of the create handler of a resource
RequiredFields(r) ==
  CASE r = "jobs" -> {"title", "company", "location", "salary", "jobDescription",
                      "originalLink", "category", "expiresOn"}
    [] r = "sarkari" -> {"title", "category", "officialWebsite", "notificationLink"}
    [] r = "internships" -> {"title", "company", "location", "applyLink", "category"}
    [] r = "walking" -> {"title", "company", "location", "experience", "category",
                         "date", "time", "applyLink"}
    [] r = "certifications" -> {"title", "company", "category", "link"}

\* the fields a body can carry besides the required ones: the fields the
\* server assigns, a field no handler names (tags of an internship, a
\* walk-in or a certification), and two optional fields of an internship
OptionalFields(r) ==
  {"id", "status", "postedAt", "tags"}
    \cup (IF r = "internships" THEN {"skills", "stipend"} ELSE {})

\* the time a client submits as postedOn / postedAt
SubmittedTime == 7

\* the value a body carries for a field
SubmittedValue(f) ==
  CASE f = "category" -> "X"
    [] f = "id" -> "b"
    [] f = "title" -> "t0"
    [] f = "company" -> "c0"
    [] f = "link" -> "l0"
    [] f = "status" -> "draft"
    [] f = "postedAt" -> SubmittedTime
    [] f = "skills" -> "k1, k2"
    [] OTHER -> "v"

\* a body with every required field
FullBody(r) == [f \in RequiredFields(r) |-> SubmittedValue(f)]

\* the request bodies of a create: complete, one required field missing or
\* empty, or complete with one more field
CreateBodies(r) ==
  {FullBody(r)}
    \cup {[f \in RequiredFields(r) \ {g} |-> SubmittedValue(f)] : g \in RequiredFields(r)}
    \cup {[FullBody(r) EXCEPT ![g] = ""] : g \in RequiredFields(r)}
    \cup {[f \in RequiredFields(r) \cup {e} |-> SubmittedValue(f)] : e \in OptionalFields(r)}

\* body[f], undefined when the body has no f
BodyValue(body, f) == IF f \in DOMAIN body THEN body[f] ELSE Absent

\* !value
Falsy(v) == v \in {Absent, ""}

\* Array.isArray(skills) ? skills : (skills ? skills.split(',').map(s => s.trim()) : [])
SplitList(v) == IF Falsy(v) THEN "[]" ELSE IF v = "k1, k2" THEN "[k1,k2]" ELSE "[v]"

\* value || fallback
OrElse(v, fallback) == IF Falsy(v) THEN fallback ELSE v

\* mutant of NewItem: the body is spread after the server's fields,
\* { jobId, postedOn, status, ...req.body }, and overrides them
NewItem_BodyWins(r, body, id, ts, logo) ==
  [f \in DOMAIN body \cup {"id", "postedAt", "status"} |->
     IF f \in DOMAIN body THEN body[f]
     ELSE CASE f = "id" -> id [] f = "postedAt" -> ts [] f = "status" -> "active"]

\* mutant of NewItem: every handler copies the required fields only
NewItem_RequiredOnly(r, body, id, ts, logo) ==
  [f \in RequiredFields(r) \cup {"id", "postedAt", "status"} |->
     CASE f = "id" -> id [] f = "postedAt" -> ts [] f = "status" -> "active"
       [] OTHER -> body[f]]

\* The item a create handler builds.  createJob and createSarkariJob spread
\* the body and then set jobId, postedOn and status; the other handlers
\* copy the fields they name.
NewItem(r, body, id, ts, logo) ==
  CASE r = "jobs" ->
         [f \in DOMAIN body \cup {"id", "postedAt", "status"} |->
            CASE f = "id" -> id [] f = "postedAt" -> ts [] f = "status" -> "active"
              [] OTHER -> body[f]]
    [] r = "sarkari" ->
         [f \in DOMAIN body \cup {"id", "postedOn", "status"} |->
            CASE f = "id" -> id [] f = "postedOn" -> ts [] f = "status" -> "active"
              [] OTHER -> body[f]]
    [] r = "internships" ->
         [id |-> id, title |-> body.title, company |-> body.company,
          companyLogo |-> logo, location |-> body.location,
          startDate |-> OrElse(BodyValue(body, "startDate"), ""),
          endDate |-> OrElse(BodyValue(body, "endDate"), ""),
          stipend |-> OrElse(BodyValue(body, "stipend"), "Not specified"),
          duration |-> OrElse(BodyValue(body, "duration"), "Not specified"),
          applyLink |-> body.applyLink,
          description |-> OrElse(BodyValue(body, "description"), ""),
          skills |-> SplitList(BodyValue(body, "skills")),
          category |-> body.category,
          batch |-> SplitList(BodyValue(body, "batch")),
          postedAt |-> ts, lastUpdated |-> ts, status |-> "active"]
    [] r = "walking" ->
         [f \in RequiredFields(r) \cup {"id", "postedAt"} |->
            CASE f = "id" -> id [] f = "postedAt" -> ts [] OTHER -> body[f]]
    [] r = "certifications" ->
         [f \in RequiredFields(r) \cup {"id", "postedAt", "lastUpdated"} |->
            CASE f = "id" -> id [] f \in {"postedAt", "lastUpdated"} -> ts
              [] OTHER -> body[f]]

\* A POST request arrives: 400 when a required field is missing or empty;
\* otherwise the handler generates an identifier no item has
\* (createInternship after awaiting the company logo) and issues the put.
StartCreate(p, body, http) ==
  /\ pc[p] = "idle"
  /\ now < MaxCalls
  /\ now' = now + 1
  /\ req' = [req EXCEPT ![p] =
               [op |-> "create", id |-> Absent, patch |-> <<>>, body |-> body, http |-> http]]
  /\ UNCHANGED <<bulk, sent, calls, listed, res, table, Items, existing, expr, stamp, todo>>
  /\ LET logo == IF res = "internships"
                   THEN getCompanyLogo(res, BodyValue(body, "company"), http)
                   ELSE Absent
     IN IF \E f \in RequiredFields(res) : Falsy(BodyValue(body, f))
          THEN Respond(p, "400") /\ UNCHANGED newData
          ELSE IF logo = Throws
          THEN Respond(p, "500") /\ UNCHANGED newData
          ELSE \E id \in Ids :
                 /\ ScanById(table, id) = {}
                 /\ newData' = [newData EXCEPT ![p] = NewItem(res, body, id, now', logo)]
                 /\ pc' = [pc EXCEPT ![p] = "cput"]
                 /\ UNCHANGED resp

\* The put of a create handler completes: 201.
CreatePut(p) ==
  /\ pc[p] = "cput"
  /\ table' = PutItem(table, res, newData[p])
  /\ Respond(p, "201")
  /\ UNCHANGED <<bulk, sent, calls, listed, res, now, req, Items, existing, newData, expr, stamp, todo>>

\* A GET /:id request arrives.
StartGet(p, id, http) ==
  /\ pc[p] = "idle"
  /\ now < MaxCalls
  /\ now' = now + 1
  /\ req' = [req EXCEPT ![p] = [op |-> "get", id |-> id, patch |-> <<>>, http |-> http]]
  /\ pc' = [pc EXCEPT ![p] = "fetch"]
  /\ UNCHANGED <<bulk, sent, calls, listed, res, table, Items, existing, newData, expr, stamp, todo, resp>>

\* { ...result.Item, companyLogo: logo }
WithLogo(item, logo) ==
  [f \in DOMAIN item \cup {"companyLogo"} |-> IF f = "companyLogo" THEN logo ELSE item[f]]

\* The scan (jobs, sarkari jobs, internships) or the get (walking,
\* certifications) of a fetch by identifier returns: 404 when there is no
\* item, otherwise the item is the response; getWalkingById and
\* getCertificationById first add the logo of its company or provider.
Fetch(p) ==
  /\ pc[p] = "fetch"
  /\ LET found == IF res \in Partitioned THEN ScanById(table, req[p].id)
                   ELSE {table[<<NoPartition, req[p].id>>]} \ {NoItem}
     IN /\ Items' = [Items EXCEPT ![p] = found]
        /\ IF found = {}
             THEN Respond(p, "404") /\ UNCHANGED existing
             ELSE \E first \in found :
                    LET logo == getCompanyLogo(res, BodyValue(first, "company"), req[p].http)
                    IN IF res \in Partitioned
                         THEN /\ existing' = [existing EXCEPT ![p] = first]
                              /\ Respond(p, "200")
                         ELSE IF logo = Throws
                         THEN Respond(p, "500") /\ UNCHANGED existing
                         ELSE /\ existing' = [existing EXCEPT ![p] = WithLogo(first, logo)]
                              /\ Respond(p, "200")
  /\ UNCHANGED <<bulk, sent, calls, listed, res, table, now, req, newData, expr, stamp, todo>>

----------------------------------------------------------------------------
(* The CV analysis *)

\* the characters of the blob keys of a request
KeyChars(k) ==
  CASE k = "cv.pdf" -> <<"c", "v", ".", "p", "d", "f">>
    [] k = "CV.PDF" -> <<"C", "V", ".", "P", "D", "F">>
    [] k = "cv.doc" -> <<"c", "v", ".", "d", "o", "c">>
    [] k = "cvpdf" -> <<"c", "v", "p", "d", "f">>
    [] OTHER -> <<>>

\* the values a request gives to cvS3Key
CvKeys == {Absent, "", "cv.pdf", "CV.PDF", "cv.doc", "cvpdf"}

\* the values a request gives to jobId and to internshipId
CvIds == Ids \cup {Absent}

\* s.endsWith(suffix)
EndsWith(s, suffix) ==
  Len(s) >= Len(suffix) /\ SubSeq(s, Len(s) - Len(suffix) + 1, Len(s)) = suffix

\* cvS3Key.toLowerCase().endsWith('.pdf')
IsPdfKey(k) == EndsWith(toLowerCase(KeyChars(k)), <<".", "p", "d", "f">>)

\* mutant of Rejected: the extension of the key is not looked at
Rejected_NoPdfCheck(jobId, internshipId, cvS3Key) ==
  (Falsy(jobId) /\ Falsy(internshipId)) \/ Falsy(cvS3Key)

\* the two validations of analyzeCv that answer 400
Rejected(jobId, internshipId, cvS3Key) ==
  \/ (Falsy(jobId) /\ Falsy(internshipId)) \/ Falsy(cvS3Key)
  \/ ~IsPdfKey(cvS3Key)

\* the table analyzeCv scans: the internships when internshipId is given,
\* the jobs otherwise
CvTable(jobId, internshipId) == IF ~Falsy(internshipId) THEN "internships" ELSE "jobs"

\* the identifier analyzeCv scans for
CvTarget(r) == IF r.internshipId # Absent /\ r.internshipId # "" THEN r.internshipId ELSE r.jobId

\* what comes of the scoring call: no API key is configured and no request
\* is made, the service answers the payload asked for, it answers the sentinel payload
\* {error} that has no matchingSkills, it answers the JSON text null, it
\* answers text that is no JSON, the request fails or times out
ScoreOutcomes == {"nokey", "payload", "sentinel", "null", "unparsable", "fails", "timeout"}

\* the outcomes in which callGeminiAPI falls back to its mock response
FallsBack(outcome) == outcome \in {"nokey", "unparsable", "fails", "timeout"}

\* Math.floor(Math.random() * 40) lies below 40
RandomRange == 40

\* the values of Math.floor(Math.random() * 40) followed here
RandomDraws == {0, 17, RandomRange - 1}

\* the base of the compatibility score of the mock response
MockBase == 60

\* the score the service itself gives in its payload
PayloadScore == 35

\* JSON.parse yields null
NullPayload == [kind |-> "null"]

\* mutant of callGeminiAPI: a failure of the call is thrown to the caller
callGeminiAPI_Propagates(outcome, draw) ==
  CASE outcome = "nokey" ->
         [kind |-> "mock", compatibilityScore |-> draw + MockBase, matchingSkills |-> TRUE]
    [] outcome = "payload" ->
         [kind |-> "payload", compatibilityScore |-> PayloadScore, matchingSkills |-> TRUE]
    [] outcome = "sentinel" -> [kind |-> "sentinel", matchingSkills |-> FALSE]
    [] outcome = "null" -> NullPayload
    [] OTHER -> [kind |-> Throws]

\* callGeminiAPI: the parsed payload of the service, or the mock response
\* when no key is configured and when the call or the parse throws;
\* matchingSkills tells whether the response has a matchingSkills list
callGeminiAPI(outcome, draw) ==
  CASE FallsBack(outcome) ->
         [kind |-> "mock", compatibilityScore |-> draw + MockBase, matchingSkills |-> TRUE]
    [] outcome = "payload" ->
         [kind |-> "payload", compatibilityScore |-> PayloadScore, matchingSkills |-> TRUE]
    [] outcome = "sentinel" -> [kind |-> "sentinel", matchingSkills |-> FALSE]
    [] outcome = "null" -> NullPayload

\* the jobs getSuggestedJobs scores: active, other than the current one
SuggestCandidates(t, jobId) ==
  {t[k].id : k \in {j \in Keys : t[j] # NoItem /\ t[j].status = "active" /\ t[j].id # jobId}}

\* getSuggestedJobs: the scan or the scoring of a job may throw, and the
\* catch answers the empty list; matchingSkills.filter is called once per
\* scanned job, so a missing list throws when a job was scanned
getSuggestedJobs(t, hasSkills, jobId, scanOk) ==
  IF ~scanOk THEN {}
  ELSE IF ~hasSkills /\ SuggestCandidates(t, jobId) # {} THEN {}
  ELSE SuggestCandidates(t, jobId)

\* an outbound call of handler p and what came of it
Call(p, to, outcome) == [by |-> p, to |-> to, outcome |-> outcome]

\* ok or not, as an outcome
Outcome(ok) == IF ok THEN "ok" ELSE "fails"

\* POST /ai/analyze-cv arrives: the validations come first.
StartAnalyze(p, jobId, internshipId, cvS3Key) ==
  /\ pc[p] = "idle"
  /\ CvTable(jobId, internshipId) = res \/ Rejected(jobId, internshipId, cvS3Key)
  /\ req' = [req EXCEPT ![p] = [op |-> "analyze", id |-> Absent, patch |-> <<>>,
                                jobId |-> jobId, internshipId |-> internshipId,
                                cvS3Key |-> cvS3Key]]
  /\ IF Rejected(jobId, internshipId, cvS3Key)
       THEN /\ Respond(p, "400")
            /\ sent' = [sent EXCEPT ![p] = [kind |-> "error"]]
       ELSE /\ pc' = [pc EXCEPT ![p] = "find"]
            /\ UNCHANGED <<resp, sent>>
  /\ UNCHANGED <<bulk, calls, listed, res, table, now, Items, existing, newData, expr, stamp, todo>>

\* the body of the 500 response of analyzeCv
CvFailed == [kind |-> "error", error |-> "CV analysis failed"]

\* The scan for the job or the internship completes or throws.
FindListing(p, ok) ==
  /\ pc[p] = "find"
  /\ calls' = Append(calls, Call(p, "store", Outcome(ok)))
  /\ Items' = [Items EXCEPT ![p] = IF ok THEN ScanById(table, CvTarget(req[p])) ELSE {}]
  /\ IF ~ok
       THEN /\ Respond(p, "500")
            /\ sent' = [sent EXCEPT ![p] = CvFailed]
            /\ UNCHANGED existing
       ELSE IF Items'[p] = {}
         THEN /\ Respond(p, "404")
              /\ sent' = [sent EXCEPT ![p] = [kind |-> "error"]]
              /\ UNCHANGED existing
         ELSE /\ \E item \in Items'[p] : existing' = [existing EXCEPT ![p] = item]
              /\ pc' = [pc EXCEPT ![p] = "blob"]
              /\ UNCHANGED <<resp, sent>>
  /\ UNCHANGED <<bulk, listed, res, table, now, req, newData, expr, stamp, todo>>

\* The CV is fetched from the blob store and its text extracted, or one of
\* the two throws.
FetchCv(p, ok) ==
  /\ pc[p] = "blob"
  /\ calls' = Append(calls, Call(p, "blob", Outcome(ok)))
  /\ IF ok
       THEN /\ pc' = [pc EXCEPT ![p] = "score"]
            /\ UNCHANGED <<resp, sent>>
       ELSE /\ Respond(p, "500")
            /\ sent' = [sent EXCEPT ![p] = CvFailed]
  /\ UNCHANGED <<bulk, listed, res, table, now, req, Items, existing, newData, expr, stamp, todo>>

\* the response of analyzeCv once the score is there: an internship has no
\* suggested jobs; for a job geminiResponse.matchingSkills is read, which
\* throws on null, and getSuggestedJobs scans the jobs
Analysed(t, isInternship, jobId, geminiResponse, scanOk) ==
  IF geminiResponse.kind = Throws THEN CvFailed
  ELSE IF isInternship THEN [kind |-> "analysis", analysis |-> geminiResponse, suggestedJobs |-> {}]
  ELSE IF geminiResponse = NullPayload THEN CvFailed
  ELSE [kind |-> "analysis", analysis |-> geminiResponse,
        suggestedJobs |-> getSuggestedJobs(t, geminiResponse.matchingSkills, jobId, scanOk)]

\* callGeminiAPI is awaited, then getSuggestedJobs, and the response is
\* sent.
Score(p, outcome, draw, scanOk) ==
  /\ pc[p] = "score"
  /\ LET isInternship == res = "internships"
         geminiResponse == callGeminiAPI(outcome, draw)
         body == Analysed(table, isInternship, req[p].jobId, geminiResponse, scanOk)
         scored == Append(calls, Call(p, "scoring", outcome))
     IN /\ calls' = IF isInternship \/ geminiResponse.kind \in {Throws, "null"}
                      THEN scored
                      ELSE Append(scored, Call(p, "store", Outcome(scanOk)))
        /\ sent' = [sent EXCEPT ![p] = body]
        /\ Respond(p, IF body = CvFailed THEN "500" ELSE "200")
  /\ UNCHANGED <<bulk, listed, res, table, now, req, Items, existing, newData, expr, stamp, todo>>

----------------------------------------------------------------------------
(* Bulk upload *)

\* the number of items of one batched write
BatchSize == 25

\* the number of certifications one upload may hold
MaxCerts == 1000

\* the largest number of valid rows of an uploaded file followed here
MaxRows == 30

\* the largest number of writes of one upload that fail
MaxFailures == 1

\* the numbers of valid rows of the files uploaded for resource r; only
\* bulkUploadCertifications looks at the number, so one file above its
\* limit is followed for it
RowCounts(r) ==
  IF r = "certifications" THEN 0..MaxRows \cup {MaxCerts + 1} ELSE 0..MaxRows

\* the numbers of rows of a file that the row step of the handler turns down
BadRowCounts == {0, 1}

Min(a, b) == IF a < b THEN a ELSE b

\* a write to the store issued by handler p for the valid rows from..to,
\* and what came of it
Write(p, from, to, ok) ==
  [by |-> p, to |-> "store", outcome |-> Outcome(ok), rows |-> <<from, to>>]

\* items.slice(i, i + 25), as the range of rows it holds
BatchAt(i, n) == <<i + 1, Min(i + BatchSize, n)>>

\* for (let i = 0; i < n; i += 25) batches.push(items.slice(i, i + 25))
RECURSIVE BatchesFrom(_, _)
BatchesFrom(i, n) == IF i < n THEN <<BatchAt(i, n)>> \o BatchesFrom(i + BatchSize, n) ELSE <<>>

\* the handlers that write the valid rows in batches, one batch after the
\* other
Batching == {"jobs", "sarkari", "walking"}

\* the body of the response of a bulk upload that went through: the number
\* of rows reported as written, and the number of entries of its error
\* list (bulkUploadCertifications has no error list)
BulkBody(r, written, errors) ==
  [kind |-> "bulk", successful |-> written,
   errors |-> IF r = "certifications" THEN 0 ELSE errors]

\* POST /bulk-upload arrives with a file of valid and of bad rows, or with
\* no file; the rows are read and the bad ones set aside.
StartBulk(p, file, valid, bad) ==
  /\ pc[p] = "idle"
  /\ req' = [req EXCEPT ![p] = [op |-> "bulk", id |-> Absent, patch |-> <<>>,
                                file |-> file, valid |-> valid, bad |-> bad]]
  /\ bulk' = [bulk EXCEPT ![p] = [next |-> 0, created |-> 0, errors |-> bad]]
  /\ IF ~file \/ (res = "certifications" /\ (valid = 0 \/ valid > MaxCerts))
       THEN /\ Respond(p, "400")
            /\ sent' = [sent EXCEPT ![p] = [kind |-> "error"]]
       ELSE IF valid = 0 /\ res \in Batching
         THEN /\ Respond(p, "200")
              /\ sent' = [sent EXCEPT ![p] = BulkBody(res, 0, bad)]
         ELSE /\ pc' = [pc EXCEPT ![p] = IF res \in Batching THEN "batch"
                                         ELSE IF res = "internships" THEN "row"
                                         ELSE "all"]
              /\ UNCHANGED <<resp, sent>>
  /\ UNCHANGED <<calls, listed, res, table, now, Items, existing, newData, expr, stamp, todo>>

\* a write of handler p may fail
MayFail(p) ==
  Cardinality({i \in 1..Len(calls) : calls[i].by = p /\ calls[i].outcome = "fails"}) < MaxFailures

\* bulkUploadJobs, bulkUploadSarkariJobs, bulkUploadWalking: the next batch
\* is written and awaited; a failure leaves the loop for the catch.
BatchWrite(p, ok) ==
  /\ pc[p] = "batch"
  /\ ok \/ MayFail(p)
  /\ LET n == req[p].valid
         batch == BatchAt(bulk[p].next, n)
     IN /\ calls' = Append(calls, Write(p, batch[1], batch[2], ok))
        /\ bulk' = [bulk EXCEPT ![p].next = @ + BatchSize]
        /\ IF ~ok
             THEN /\ Respond(p, "500")
                  /\ sent' = [sent EXCEPT ![p] = [kind |-> "error"]]
             ELSE IF bulk'[p].next < n
               THEN UNCHANGED <<pc, resp, sent>>
               ELSE /\ Respond(p, "200")
                    /\ sent' = [sent EXCEPT ![p] = BulkBody(res, n, bulk[p].errors)]
  /\ UNCHANGED <<listed, res, table, now, req, Items, existing, newData, expr, stamp, todo>>

\* bulkUploadInternships: a row is turned down, or the next valid row is put
\* on its own and awaited; a failure is added to the error list and the
\* loop goes on.  The response follows the last row.
PutRow(p, ok) ==
  /\ pc[p] = "row"
  /\ ok \/ MayFail(p)
  /\ LET n == req[p].valid
         i == bulk[p].next
         after == [next |-> i + 1,
                   created |-> bulk[p].created + (IF ok THEN 1 ELSE 0),
                   errors |-> bulk[p].errors + (IF ok THEN 0 ELSE 1)]
     IN IF i < n
          THEN /\ calls' = Append(calls, Write(p, i + 1, i + 1, ok))
               /\ bulk' = [bulk EXCEPT ![p] = after]
               /\ UNCHANGED <<pc, resp, sent>>
          ELSE /\ Respond(p, "200")
               /\ sent' = [sent EXCEPT ![p] = BulkBody(res, bulk[p].created, bulk[p].errors)]
               /\ UNCHANGED <<calls, bulk>>
  /\ UNCHANGED <<listed, res, table, now, req, Items, existing, newData, expr, stamp, todo>>

\* bulkUploadCertifications: every batch is written at once and
\* Promise.all awaited; one failure makes it throw.
WriteAll(p, failing) ==
  /\ pc[p] = "all"
  /\ LET n == req[p].valid
         batches == BatchesFrom(0, n)
     IN /\ failing \subseteq DOMAIN batches
        /\ Cardinality(failing) <= MaxFailures
        /\ calls' = calls \o [b \in DOMAIN batches |->
                                Write(p, batches[b][1], batches[b][2], b \notin failing)]
        /\ IF failing = {}
             THEN /\ Respond(p, "201")
                  /\ sent' = [sent EXCEPT ![p] = BulkBody(res, n, 0)]
             ELSE /\ Respond(p, "500")
                  /\ sent' = [sent EXCEPT ![p] = [kind |-> "error"]]
  /\ UNCHANGED <<bulk, listed, res, table, now, req, Items, existing, newData, expr, stamp, todo>>

----------------------------------------------------------------------------
(* Failures of the store *)

\* the operations of a controller that read or write its table
Operations == {"list", "get", "create", "update", "delete", "bulk"}

\* the messages of the errors the store client throws
StoreErrors == {"Requested resource not found", "Rate exceeded"}

\* process.env.NODE_ENV
Modes == {"production", "development"}

\* the text the catch of a handler sets itself
Generic == "Failed to ..."

\* the controllers whose catch blocks put error.message in the response
SendsMessage(r) == r \in {"internships", "walking", "certifications"}

\* the body of the 500 response the catch of a handler of resource r
\* sends for an error with this message: the handlers of jobs and sarkari
\* jobs send {error: <own text>}, the others {success: false,
\* message: <own text>, error: error.message}
CatchBody(r, message) ==
  [kind |-> "error", text |-> Generic,
   underlying |-> IF SendsMessage(r) THEN message ELSE Absent]

\* A request for operation op arrives while the process runs in the given
\* mode; the store call of the handler throws and its catch responds.
Fails(p, op, message, mode) ==
  /\ pc[p] = "idle"
  /\ req' = [req EXCEPT ![p] = [op |-> op, id |-> Absent, patch |-> <<>>,
                                mode |-> mode, thrown |-> message]]
  /\ calls' = Append(calls, Call(p, "store", "fails"))
  /\ Respond(p, "500")
  /\ sent' = [sent EXCEPT ![p] = CatchBody(res, message)]
  /\ UNCHANGED <<bulk, listed, res, table, now, Items, existing, newData, expr, stamp, todo>>

----------------------------------------------------------------------------
(* Responses of the handlers that respond outside a plain try/catch *)

\* largest number of categories in the body of a subscription
MaxCats == 2

\* the values of email in the body of POST /subscribe
Emails == {Absent, "bad", "a@b.c"}
\* /^[^\s@]+@[^\s@]+\.[^\s@]+$/ on those values
EmailMatches(email) == email = "a@b.c"

\* what reading and parsing the uploaded file can do: complete, fail in
\* fs.createReadStream (the file cannot be read), fail in csv()
StreamOutcomes == {"end", "readfails", "parsefails"}

\* the handlers of the bulk uploads that respond from stream callbacks
Uploads == {"bulkUploadWalking", "bulkUploadInternships"}

\* a response goes out to the client of p
Send(p, s) ==
  /\ resp' = [resp EXCEPT ![p] = s]
  /\ calls' = Append(calls, Call(p, "client", s))

\* what a request of p has logged in calls, without a response
Note(p, to, outcome) == calls' = Append(calls, Call(p, to, outcome))

\* GET /s3/pre-signed-url arrives; the handler awaits getSignedUrl.
StartPreSign(p) ==
  /\ pc[p] = "idle" /\ req[p] = NoReq
  /\ req' = [req EXCEPT ![p] = [op |-> "getPreSignedUrl", id |-> Absent, patch |-> <<>>]]
  /\ pc' = [pc EXCEPT ![p] = "sign"]
  /\ UNCHANGED <<resp, calls, bulk, sent, listed, res, table, now, Items, existing, newData, expr, stamp, todo>>

\* getSignedUrl settles.  The handler answers 200 with the URL; when the
\* signing throws, its catch logs and rethrows, so the promise the handler
\* returned rejects.  A router that ignores the returned promise
\* (Express 4) sends nothing; one that forwards the rejection (Express 5)
\* reaches the error middleware of index.js, which answers 500.
PreSign(p, ok, forwards) ==
  /\ pc[p] = "sign"
  /\ pc' = [pc EXCEPT ![p] = "done"]
  /\ IF ok THEN Send(p, "200")
     ELSE IF forwards THEN Send(p, "500")
     ELSE Note(p, "blob", "fails") /\ UNCHANGED resp
  /\ UNCHANGED <<req, bulk, sent, listed, res, table, now, Items, existing, newData, expr, stamp, todo>>

\* POST /subscribe arrives: the validations come first, then the puts.
StartSubscribe(p, email, isArray, cats, user) ==
  /\ pc[p] = "idle" /\ req[p] = NoReq
  /\ req' = [req EXCEPT ![p] = [op |-> "subscribe", id |-> Absent, patch |-> <<>>,
                                email |-> email, cats |-> cats, user |-> user]]
  /\ bulk' = [bulk EXCEPT ![p] = NoBulk]
  /\ IF email = Absent \/ ~isArray \/ ~EmailMatches(email)
       THEN Send(p, "400") /\ pc' = [pc EXCEPT ![p] = "done"]
       ELSE UNCHANGED <<resp, calls>> /\ pc' = [pc EXCEPT ![p] = "sub"]
  /\ UNCHANGED <<sent, listed, res, table, now, Items, existing, newData, expr, stamp, todo>>

\* The loop of subscribe: one awaited PutCommand for each category, a
\* failing one caught with a 500; after the last the handler answers 200
\* and, for an admin, goes on to log the activity.
Subscribe(p, ok) ==
  /\ pc[p] = "sub"
  /\ IF bulk[p].next < req[p].cats
       THEN /\ bulk' = [bulk EXCEPT ![p].next = @ + 1]
            /\ IF ok THEN Note(p, "store", "ok") /\ UNCHANGED <<resp, pc>>
                     ELSE Send(p, "500") /\ pc' = [pc EXCEPT ![p] = "done"]
       ELSE /\ Send(p, "200")
            /\ pc' = [pc EXCEPT ![p] = IF req[p].user # Absent THEN "log" ELSE "done"]
            /\ UNCHANGED bulk
  /\ UNCHANGED <<req, sent, listed, res, table, now, Items, existing, newData, expr, stamp, todo>>

\* logActivity after the response: it catches the failure of its own put,
\* so the catch of subscribe is not entered.
LogActivity(p, ok) ==
  /\ pc[p] = "log"
  /\ Note(p, "activity", Outcome(ok))
  /\ pc' = [pc EXCEPT ![p] = "done"]
  /\ UNCHANGED <<resp, req, bulk, sent, listed, res, table, now, Items, existing, newData, expr, stamp, todo>>

\* A bulk upload of walking opportunities or internships arrives: 400
\* without a file, otherwise the file is piped into the parser and the
\* handler returns.
StartUpload(p, handler, file) ==
  /\ pc[p] = "idle" /\ req[p] = NoReq
  /\ req' = [req EXCEPT ![p] = [op |-> handler, id |-> Absent, patch |-> <<>>]]
  /\ IF file THEN UNCHANGED <<resp, calls>> /\ pc' = [pc EXCEPT ![p] = "stream"]
             ELSE Send(p, "400") /\ pc' = [pc EXCEPT ![p] = "done"]
  /\ UNCHANGED <<bulk, sent, listed, res, table, now, Items, existing, newData, expr, stamp, todo>>

\* The stream settles.  The 'error' listener is on the parser the file is
\* piped into, and answers 500 when the parser fails; an error of the file
\* stream itself has no listener and is thrown as an uncaught exception,
\* so nothing is sent.  On 'end' the rows are written.
Stream(p, outcome) ==
  /\ pc[p] = "stream"
  /\ CASE outcome = "end" ->
            UNCHANGED <<resp, calls>> /\ pc' = [pc EXCEPT ![p] = "end"]
       [] outcome = "parsefails" ->
            Send(p, "500") /\ pc' = [pc EXCEPT ![p] = "done"]
       [] outcome = "readfails" ->
            Note(p, "file", "fails") /\ UNCHANGED resp /\ pc' = [pc EXCEPT ![p] = "done"]
  /\ UNCHANGED <<req, bulk, sent, listed, res, table, now, Items, existing, newData, expr, stamp, todo>>

\* The 'end' callback: its try writes the rows and answers 200, its catch
\* answers 500.
End(p, ok) ==
  /\ pc[p] = "end"
  /\ Send(p, IF ok THEN "200" ELSE "500")
  /\ pc' = [pc EXCEPT ![p] = "done"]
  /\ UNCHANGED <<req, bulk, sent, listed, res, table, now, Items, existing, newData, expr, stamp, todo>>

----------------------------------------------------------------------------
(* The daily expiry sweep *)

\* the code unit of a character of a timestamp
Code(c) ==
  CASE c = "-" -> 45 [] c = "." -> 46 [] c = "/" -> 47
    [] c = "0" -> 48 [] c = "1" -> 49 [] c = "2" -> 50 [] c = "3" -> 51
    [] c = "4" -> 52 [] c = "5" -> 53 [] c = "6" -> 54 [] c = "7" -> 55
    [] c = "8" -> 56 [] c = "9" -> 57 [] c = ":" -> 58
    [] c = "T" -> 84 [] c = "Z" -> 90

RECURSIVE Less(_, _)
\* a < b for two strings in the store: the order of their code units, a
\* proper prefix before the longer string
Less(a, b) ==
  IF b = <<>> THEN FALSE
  ELSE IF a = <<>> THEN TRUE
  ELSE IF Code(Head(a)) # Code(Head(b)) THEN Code(Head(a)) < Code(Head(b))
  ELSE Less(Tail(a), Tail(b))

\* the decimal digit d as a character
Digit(d) == <<"0", "1", "2", "3", "4", "5", "6", "7", "8", "9">>[d + 1]

\* Instants are counted in tenths of a second from 2025-01-01T00:00:00Z.
\* the characters up to the last digit of the seconds
Clock == <<"2", "0", "2", "5", "-", "0", "1", "-", "0", "1", "T",
           "0", "0", ":", "0", "0", ":", "0">>

\* Date.prototype.toISOString of an instant of the first ten seconds
toISOString(t) ==
  Clock \o <<Digit(t \div 10), ".", Digit(t % 10), "0", "0", "Z">>

\* A timestamp attribute: its text as stored, and the instant the text
\* denotes.
Stamp(text, instant) == [text |-> text, instant |-> instant]

\* the latest instant a job of the model expires at
MaxExpiry == 12

\* the expiresOn values of the stored jobs: what toISOString gives, the
\* same without milliseconds (2025-01-01T00:00:01Z), a date alone
\* (2025-01-01, 2024-12-31) and a date as month/day/year (12/31/2025)
ExpiryValues ==
  {Stamp(toISOString(t), t) : t \in {5, MaxExpiry}}
    \cup {Stamp(Clock \o <<"1", "Z">>, 10)}
    \cup {Stamp(<<"2", "0", "2", "5", "-", "0", "1", "-", "0", "1">>, 0),
          Stamp(<<"2", "0", "2", "4", "-", "1", "2", "-", "3", "1">>, -864000),
          Stamp(<<"1", "2", "/", "3", "1", "/", "2", "0", "2", "5">>, 314496000)}

\* a stored job with an expiresOn attribute
WithExpiry(item, e) == [expiresOn |-> e] @@ item

\* the scan of the sweep: '#status = :active AND expiresOn < :now'
SweepMatches(item, nowText) ==
  item.status = "active" /\ Less(item.expiresOn.text, nowText)

\* UpdateCommand 'SET #status = :expired' on a key; the store creates the
\* item when the key holds none
SetExpired(t, k) ==
  [t EXCEPT ![k] = IF t[k] # NoItem THEN [t[k] EXCEPT !.status = "expired"]
                   ELSE [KeyItem("jobs", k) EXCEPT !.status = "expired"]]

\* The cron callback starts at instant t: now is taken and the scan sent.
StartSweep(p, t) ==
  /\ pc[p] = "idle" /\ req[p] = NoReq
  /\ req' = [req EXCEPT ![p] = [op |-> "sweep", id |-> Absent, patch |-> <<>>,
                                start |-> t, now |-> toISOString(t), before |-> table]]
  /\ pc' = [pc EXCEPT ![p] = "sweep"]
  /\ UNCHANGED <<resp, calls, bulk, sent, listed, res, table, now, Items, existing, newData, expr, stamp, todo>>

\* The scan returns; without a match the callback logs and ends.
SweepScan(p) ==
  /\ pc[p] = "sweep"
  /\ LET found == {table[k] : k \in {kk \in Keys :
                     table[kk] # NoItem /\ SweepMatches(table[kk], req[p].now)}}
     IN /\ Items' = [Items EXCEPT ![p] = found]
        /\ todo' = [todo EXCEPT ![p] = {<<job.category, job.id>> : job \in found}]
        /\ IF found = {}
             THEN Respond(p, "swept")
             ELSE pc' = [pc EXCEPT ![p] = "expire"] /\ UNCHANGED resp
  /\ calls' = Append(calls, Call(p, "store", "ok"))
  /\ UNCHANGED <<req, bulk, sent, listed, res, table, now, existing, newData, expr, stamp>>

\* One awaited UpdateCommand of the loop; after the last the callback logs
\* and ends.
SweepUpdate(p) ==
  /\ pc[p] = "expire"
  /\ \E k \in todo[p] :
       /\ table' = SetExpired(table, k)
       /\ todo' = [todo EXCEPT ![p] = @ \ {k}]
       /\ IF todo[p] = {k}
            THEN Respond(p, "swept")
            ELSE UNCHANGED <<pc, resp>>
  /\ calls' = Append(calls, Call(p, "store", "ok"))
  /\ UNCHANGED <<req, bulk, sent, listed, res, now, Items, existing, newData, expr, stamp>>

\* The scan or an update throws: the catch logs the failure and the
\* callback ends.
SweepFail(p) ==
  /\ pc[p] \in {"sweep", "expire"}
  /\ Respond(p, "failed")
  /\ calls' = Append(calls, Call(p, "store", "fails"))
  /\ UNCHANGED <<req, bulk, sent, listed, res, table, now, Items, existing, newData, expr, stamp, todo>>

\* GET /jobs after the sweep has ended.
ListAfterSweep(p, page, limit) ==
  /\ pc[p] = "done"
  /\ List("getJobs", Absent, Absent, page, limit)

----------------------------------------------------------------------------
(* Initial states and specifications *)

\* An item as the create handler of resource r stores it at time 0:
\* createInternship and createCertification set lastUpdated, the others
\* do not; only certifications have a link; jobs, sarkari jobs and
\* internships are created active, walking and certifications have no
\* status.
Created(r, cat, id) ==
  [category |-> cat, id |-> id, title |-> "t0", company |-> "c0",
   link |-> IF r = "certifications" THEN "l0" ELSE Absent,
   lastUpdated |-> IF r \in {"internships", "certifications"} THEN 0 ELSE NoTime,
   status |-> IF r \in Partitioned THEN "active" ELSE Absent,
   postedAt |-> IF r = "sarkari" THEN NoTime ELSE 0]

\* the tables a behaviour starts from: item a alone, or items a and b
InitTables(r) ==
  {PutItem(EmptyTable, r, Created(r, "X", "a")),
   PutItem(PutItem(EmptyTable, r, Created(r, "X", "a")), r, Created(r, "Y", "b"))}

Init ==
  /\ res \in Resources
  /\ table \in InitTables(res)
  /\ now = 0
  /\ pc = [p \in Procs |-> "idle"]
  /\ req = [p \in Procs |-> NoReq]
  /\ Items = [p \in Procs |-> {}]
  /\ existing = [p \in Procs |-> NoItem]
  /\ newData = [p \in Procs |-> NoItem]
  /\ expr = [p \in Procs |-> <<>>]
  /\ stamp = [p \in Procs |-> NoTime]
  /\ todo = [p \in Procs |-> {}]
  /\ resp = [p \in Procs |-> NoResp]
  /\ listed = NoList
  /\ calls = <<>>
  /\ sent = [p \in Procs |-> NoBody]
  /\ bulk = [p \in Procs |-> NoBulk]

\* a complete body of updateCertification
CertBodies ==
  {<<<<"title", t>>, <<"company", c>>, <<"category", g>>, <<"link", "l0">>>> :
     t \in Titles, c \in Companies, g \in Categories}

\* the request bodies of sequential requests
SeqPatches(r) == IF r = "certifications" THEN CertBodies \cup Bodies ELSE Bodies

\* the request bodies of concurrent requests
RacePatches(r) ==
  IF r = "certifications"
    THEN {<<<<"title", "t1">>, <<"company", "c0">>, <<"category", "X">>, <<"link", "l0">>>>,
          <<<<"title", "t1">>>>}
    ELSE {<<<<"title", "t1">>>>, <<<<"company", "c1">>>>,
          <<<<"category", "Y">>>>, <<<<"category", "Z">>>>}

\* the steps of a handler after the request has arrived
Step(p) ==
  \/ ScanForUpdate(p)
  \/ ScanForDelete(p)
  \/ GetWalking(p)
  \/ RelocPut(p)
  \/ RelocDelete(p)
  \/ WalkingPut(p)
  \/ FieldUpdate(p)
  \/ DeleteStep(p)
  \/ StoreFail(p)
  \/ Return(p)

\* Requests are handled concurrently.
Next ==
  \E p \in Procs :
    \/ \E id \in Ids, patch \in RacePatches(res) : StartUpdate(p, id, patch)
    \/ \E id \in Ids : StartDelete(p, id)
    \/ Step(p)

Spec == Init /\ [][Next]_vars

\* no other handler is busy
Alone(p) == \A q \in Procs \ {p} : pc[q] = "idle"

\* Requests do not overlap: one handler takes them one after the other.
NextSeq ==
  \E p \in {"h1"} :
    \/ Alone(p) /\ \E id \in Ids, patch \in SeqPatches(res) : StartUpdate(p, id, patch)
    \/ Alone(p) /\ \E id \in Ids : StartDelete(p, id)
    \/ Step(p)

SpecSeq == Init /\ [][NextSeq]_vars

\* an item as a listing finds it: created, then patched, expired by the
\* sweep, or its timestamp overwritten with a value that is no date
Listed(r, cat, id, title, company, status, time) ==
  [Created(r, cat, id) EXCEPT !.title = title, !.company = company,
     !.status = IF r \in Partitioned THEN status ELSE Absent,
     !.postedAt = time]

\* the items the listed tables are made of
ListPool(r) ==
  {Listed(r, "X", "a", "t0", "c0", "active", 2),
   Listed(r, "Y", "b", "t2", "c1", "active", 1),
   Listed(r, "X", "b", "t1", "c0", "expired", 3),
   Listed(r, "Z", "a", "t3", "c1", "active", NoTime)}

RECURSIVE PutAll(_, _, _)
PutAll(t, r, S) ==
  IF S = {} THEN t
  ELSE LET item == CHOOSE x \in S : TRUE IN PutAll(PutItem(t, r, item), r, S \ {item})

\* the tables a listing is checked on: any items of the pool under distinct keys
ListTables(r) ==
  {PutAll(EmptyTable, r, S) :
     S \in {T \in SUBSET ListPool(r) : \A x, y \in T : x # y => KeyOf(r, x) # KeyOf(r, y)}}

InitList ==
  /\ res \in Resources
  /\ table \in ListTables(res)
  /\ now = 0
  /\ pc = [p \in Procs |-> "idle"]
  /\ req = [p \in Procs |-> NoReq]
  /\ Items = [p \in Procs |-> {}]
  /\ existing = [p \in Procs |-> NoItem]
  /\ newData = [p \in Procs |-> NoItem]
  /\ expr = [p \in Procs |-> <<>>]
  /\ stamp = [p \in Procs |-> NoTime]
  /\ todo = [p \in Procs |-> {}]
  /\ resp = [p \in Procs |-> NoResp]
  /\ listed = NoList
  /\ calls = <<>>
  /\ sent = [p \in Procs |-> NoBody]
  /\ bulk = [p \in Procs |-> NoBulk]

NextList ==
  \E endpoint \in Endpoints(res), category \in Categories \cup {Absent},
     q \in Queries \cup {Absent}, page \in 1..MaxPage, limit \in 1..MaxLimit :
    List(endpoint, category, q, page, limit)

\* listing requests against a table at rest
SpecList == InitList /\ [][NextList]_vars

NextPages ==
  \E endpoint \in Endpoints(res), page \in 1..MaxPage, halves \in 2..MaxHalves :
    ListPage(endpoint, page, halves)

\* listing requests with any limit against a table at rest
SpecPages == InitList /\ [][NextPages]_vars

\* the tables a create or a fetch starts from: empty, item a as created, or
\* item a with a company that an update has replaced by a value that is no
\* string
CreateTables(r) ==
  {EmptyTable,
   PutItem(EmptyTable, r, Created(r, "X", "a")),
   PutItem(EmptyTable, r, [Created(r, "X", "a") EXCEPT !.company = NotAString])}

\* a stored job with a batch attribute
WithBatch(item, b) == [batch |-> b] @@ item

\* the tables the batch filter is checked on: job a and job b, each absent
\* or stored with any of the batch attributes, active or expired
BatchTables ==
  LET A == {Listed("jobs", "X", "a", "t0", "c0", st, 2) : st \in {"active", "expired"}}
      B == {Listed("jobs", "Y", "b", "t1", "c1", st, 1) : st \in {"active", "expired"}}
      Jobs(I) == {{}} \cup {{WithBatch(item, b)} : item \in I, b \in BatchValues}
  IN {PutAll(EmptyTable, "jobs", x \cup y) : x \in Jobs(A), y \in Jobs(B)}

InitBatch ==
  /\ res = "jobs"
  /\ table \in BatchTables
  /\ now = 0
  /\ pc = [p \in Procs |-> "idle"]
  /\ req = [p \in Procs |-> NoReq]
  /\ Items = [p \in Procs |-> {}]
  /\ existing = [p \in Procs |-> NoItem]
  /\ newData = [p \in Procs |-> NoItem]
  /\ expr = [p \in Procs |-> <<>>]
  /\ stamp = [p \in Procs |-> NoTime]
  /\ todo = [p \in Procs |-> {}]
  /\ resp = [p \in Procs |-> NoResp]
  /\ listed = NoList
  /\ calls = <<>>
  /\ sent = [p \in Procs |-> NoBody]
  /\ bulk = [p \in Procs |-> NoBulk]

NextBatch ==
  \E batch \in BatchQueries, page \in 1..MaxPage, limit \in 1..MaxLimit :
    ListByBatch(batch, page, limit)

\* listings of the jobs by batch against a table at rest
SpecBatch == InitBatch /\ [][NextBatch]_vars

InitCreate ==
  /\ res \in Resources
  /\ table \in CreateTables(res)
  /\ now = 0
  /\ pc = [p \in Procs |-> "idle"]
  /\ req = [p \in Procs |-> NoReq]
  /\ Items = [p \in Procs |-> {}]
  /\ existing = [p \in Procs |-> NoItem]
  /\ newData = [p \in Procs |-> NoItem]
  /\ expr = [p \in Procs |-> <<>>]
  /\ stamp = [p \in Procs |-> NoTime]
  /\ todo = [p \in Procs |-> {}]
  /\ resp = [p \in Procs |-> NoResp]
  /\ listed = NoList
  /\ calls = <<>>
  /\ sent = [p \in Procs |-> NoBody]
  /\ bulk = [p \in Procs |-> NoBulk]

\* the outcomes of the logo service that a request of resource r depends on
HttpFor(r, op) ==
  IF (op = "create" /\ r = "internships") \/ (op = "get" /\ r \notin Partitioned)
    THEN HttpOutcomes ELSE {"200"}

\* no other handler is in the middle of a request
Quiet(p) == \A q \in Procs \ {p} : pc[q] \in {"idle", "done"}

\* One create, handled by h1, and one fetch by identifier, handled by h2,
\* one after the other in either order; the handlers keep their request
\* and response.
NextCreate ==
  \/ Quiet("h1") /\ \E body \in CreateBodies(res), http \in HttpFor(res, "create") :
                      StartCreate("h1", body, http)
  \/ Quiet("h2") /\ \E id \in Ids, http \in HttpFor(res, "get") : StartGet("h2", id, http)
  \/ \E p \in Procs :
       \/ CreatePut(p)
       \/ Fetch(p)
       \/ StoreFail(p)

SpecCreate == InitCreate /\ [][NextCreate]_vars

\* the tables a CV analysis starts from: empty, item a, or items a and b
CvTables(r) == {EmptyTable} \cup InitTables(r)

InitCv ==
  /\ res \in {"jobs", "internships"}
  /\ table \in CvTables(res)
  /\ now = 0
  /\ pc = [p \in Procs |-> "idle"]
  /\ req = [p \in Procs |-> NoReq]
  /\ Items = [p \in Procs |-> {}]
  /\ existing = [p \in Procs |-> NoItem]
  /\ newData = [p \in Procs |-> NoItem]
  /\ expr = [p \in Procs |-> <<>>]
  /\ stamp = [p \in Procs |-> NoTime]
  /\ todo = [p \in Procs |-> {}]
  /\ resp = [p \in Procs |-> NoResp]
  /\ listed = NoList
  /\ calls = <<>>
  /\ sent = [p \in Procs |-> NoBody]
  /\ bulk = [p \in Procs |-> NoBulk]

\* Two CV analyses, one after the other, the first handled by h1; the
\* handlers keep their request and response.
NextCv ==
  \E p \in Procs :
    \/ /\ Quiet(p)
       /\ p = "h2" => pc["h1"] = "done"
       /\ \E jobId \in CvIds, internshipId \in CvIds, cvS3Key \in CvKeys :
            StartAnalyze(p, jobId, internshipId, cvS3Key)
    \/ \E ok \in BOOLEAN : FindListing(p, ok)
    \/ \E ok \in BOOLEAN : FetchCv(p, ok)
    \/ \E outcome \in ScoreOutcomes, draw \in RandomDraws, scanOk \in BOOLEAN :
         Score(p, outcome, draw, scanOk)

SpecCv == InitCv /\ [][NextCv]_vars

InitBulk ==
  /\ res \in Resources
  /\ table = EmptyTable
  /\ now = 0
  /\ pc = [p \in Procs |-> "idle"]
  /\ req = [p \in Procs |-> NoReq]
  /\ Items = [p \in Procs |-> {}]
  /\ existing = [p \in Procs |-> NoItem]
  /\ newData = [p \in Procs |-> NoItem]
  /\ expr = [p \in Procs |-> <<>>]
  /\ stamp = [p \in Procs |-> NoTime]
  /\ todo = [p \in Procs |-> {}]
  /\ resp = [p \in Procs |-> NoResp]
  /\ listed = NoList
  /\ calls = <<>>
  /\ sent = [p \in Procs |-> NoBody]
  /\ bulk = [p \in Procs |-> NoBulk]

\* One bulk upload, handled by h1.
NextBulk ==
  \/ \E file \in BOOLEAN, valid \in RowCounts(res), bad \in BadRowCounts :
       StartBulk("h1", file, valid, bad)
  \/ \E ok \in BOOLEAN : BatchWrite("h1", ok)
  \/ \E ok \in BOOLEAN : PutRow("h1", ok)
  \/ \E failing \in SUBSET (1..Ceil(MaxRows, BatchSize)) : WriteAll("h1", failing)

SpecBulk == InitBulk /\ [][NextBulk]_vars

\* Each handler serves one request, and the store call of each throws; the
\* state a bulk upload starts from serves as well.
NextFail ==
  \E p \in Procs, op \in Operations, message \in StoreErrors, mode \in Modes :
    Fails(p, op, message, mode)

SpecFail == InitBulk /\ [][NextFail]_vars

\* the state the handlers of the subscription, signing and upload routes
\* start from
InitRespond ==
  /\ res = "walking"
  /\ table = EmptyTable
  /\ now = 0
  /\ pc = [p \in Procs |-> "idle"]
  /\ req = [p \in Procs |-> NoReq]
  /\ Items = [p \in Procs |-> {}]
  /\ existing = [p \in Procs |-> NoItem]
  /\ newData = [p \in Procs |-> NoItem]
  /\ expr = [p \in Procs |-> <<>>]
  /\ stamp = [p \in Procs |-> NoTime]
  /\ todo = [p \in Procs |-> {}]
  /\ resp = [p \in Procs |-> NoResp]
  /\ listed = NoList
  /\ calls = <<>>
  /\ sent = [p \in Procs |-> NoBody]
  /\ bulk = [p \in Procs |-> NoBulk]

\* Each handler serves one request.
NextRespond ==
  \E p \in Procs :
    \/ StartPreSign(p)
    \/ \E ok \in BOOLEAN, forwards \in BOOLEAN : PreSign(p, ok, forwards)
    \/ \E email \in Emails, isArray \in BOOLEAN, cats \in 0..MaxCats, user \in {Absent, "admin"} :
         StartSubscribe(p, email, isArray, cats, user)
    \/ \E ok \in BOOLEAN : Subscribe(p, ok)
    \/ \E ok \in BOOLEAN : LogActivity(p, ok)
    \/ \E handler \in Uploads, file \in BOOLEAN : StartUpload(p, handler, file)
    \/ \E outcome \in StreamOutcomes : Stream(p, outcome)
    \/ \E ok \in BOOLEAN : End(p, ok)

SpecRespond == InitRespond /\ [][NextRespond]_vars

\* the latest instant the sweep starts at
MaxStart == 12

\* the tables the sweep runs on: job a and job b, each absent or stored
\* with any of the expiresOn values, active or expired
SweepTables ==
  LET A == {Listed("jobs", "X", "a", "t0", "c0", st, 2) : st \in {"active", "expired"}}
      B == {Listed("jobs", "Y", "b", "t1", "c1", st, 1) : st \in {"active", "expired"}}
      Jobs(I) == {{}} \cup {{WithExpiry(item, e)} : item \in I, e \in ExpiryValues}
  IN {PutAll(EmptyTable, "jobs", x \cup y) : x \in Jobs(A), y \in Jobs(B)}

InitSweep ==
  /\ res = "jobs"
  /\ table \in SweepTables
  /\ now = 0
  /\ pc = [p \in Procs |-> "idle"]
  /\ req = [p \in Procs |-> NoReq]
  /\ Items = [p \in Procs |-> {}]
  /\ existing = [p \in Procs |-> NoItem]
  /\ newData = [p \in Procs |-> NoItem]
  /\ expr = [p \in Procs |-> <<>>]
  /\ stamp = [p \in Procs |-> NoTime]
  /\ todo = [p \in Procs |-> {}]
  /\ resp = [p \in Procs |-> NoResp]
  /\ listed = NoList
  /\ calls = <<>>
  /\ sent = [p \in Procs |-> NoBody]
  /\ bulk = [p \in Procs |-> NoBulk]

\* One run of the sweep, nothing else writing, and a listing after it.
NextSweep ==
  \/ \E t \in 10..MaxStart : StartSweep("h1", t)
  \/ SweepScan("h1")
  \/ SweepUpdate("h1")
  \/ SweepFail("h1")
  \/ \E page \in 1..MaxPage, limit \in 1..MaxLimit : ListAfterSweep("h1", page, limit)

SpecSweep == InitSweep /\ [][NextSweep]_vars

TypeOK ==
  /\ res \in Resources
  /\ now \in Nat
  /\ \A p \in Procs : pc[p] \in {"idle", "scan", "get", "put", "del", "upd", "rm", "cput", "fetch", "find", "blob", "score", "batch", "row", "all", "done"}

----------------------------------------------------------------------------
(* Properties of the update and delete handlers *)

Present(k) == table[k] # NoItem

\* the items stored with sort-key value id, under any partition
Stored(id) == ScanById(table, id)

\* handler p took the relocation branch of updateJob / updateInternship
Relocating(p) ==
  /\ res \in {"jobs", "internships"}
  /\ req[p].op = "update"
  /\ pc[p] \in {"put", "del", "done"}
  /\ newData[p] # NoItem

OldKey(p) == <<existing[p].category, req[p].id>>
NewKey(p) == KeyOf(res, newData[p])

\* C1: in a relocation the put has completed when the delete of the old key
\* is pending, and at every point of the relocation, also after a failed put
\* or a failed delete, the item is stored under the old key or under the
\* key of the put: it is never stored under neither.
C1_InsertThenDelete ==
  \A p \in Procs :
    Relocating(p) =>
      /\ Present(OldKey(p)) \/ Present(NewKey(p))
      /\ pc[p] = "del" => table[NewKey(p)] = newData[p]

\* C1 witness: the delete of a relocation failed after its put; the item is
\* stored under both keys (the duplicate state).
C1_Duplicate ==
  \E p \in Procs :
    /\ Relocating(p)
    /\ pc[p] = "done"
    /\ resp[p] = "500"
    /\ table[NewKey(p)] = newData[p]
    /\ Present(OldKey(p))

\* C2: after a successful relocation of an item stored under category X
\* only, exactly one item has the sort-key value, it is stored under the new
\* category, and nothing is stored under (X, sortKey).
C2_RelocatedOnce ==
  \A p \in Procs :
    ( /\ Relocating(p)
      /\ pc[p] = "done"
      /\ resp[p] = "200"
      /\ Items[p] = {existing[p]} )
    => /\ Cardinality(Stored(req[p].id)) = 1
       /\ \A item \in Stored(req[p].id) :
            item.category = PatchValue(req[p].patch, "category")
       /\ ~Present(OldKey(p))

\* handler p has answered an update request with success
UpdatedOK(p) == pc[p] = "done" /\ req[p].op = "update" /\ resp[p] = "200"

\* C3: once all update calls on a sort-key value have returned success,
\* exactly one item is stored with that sort-key value, whatever the
\* interleaving of the calls.
C3_ExactlyOneItem ==
  \A p, q \in Procs :
    ( /\ p # q
      /\ res \in {"jobs", "internships"}
      /\ UpdatedOK(p) /\ UpdatedOK(q)
      /\ req[p].id = req[q].id )
    => Cardinality(Stored(req[p].id)) = 1

\* the title handler q wrote with success is in no stored item of its id
TitleLost(q) ==
  /\ UpdatedOK(q)
  /\ PatchHas(req[q].patch, "title")
  /\ Stored(req[q].id) # {}
  /\ \A item \in Stored(req[q].id) : item.title # PatchGet(req[q].patch, "title")

\* C4: the update is a read-modify-write over two store calls.  When two
\* update calls on the same sort-key value have both returned success and
\* the written title of one of them is in no stored item, the other call
\* wrote from a snapshot it had scanned before that write (a lost update).
C4_LostUpdateFromStaleSnapshot ==
  \A p, q \in Procs :
    ( /\ p # q
      /\ res \in {"jobs", "internships"}
      /\ UpdatedOK(p)
      /\ req[p].id = req[q].id
      /\ TitleLost(q) )
    => existing[p].title # PatchGet(req[q].patch, "title")

\* C4 witness: both calls returned success, one of them relocated the item
\* from its stale snapshot, and the title the other one wrote is lost.
C4_LostUpdate ==
  \E p, q \in Procs :
    /\ p # q
    /\ UpdatedOK(p)
    /\ Relocating(p)
    /\ req[p].id = req[q].id
    /\ TitleLost(q)

\* the request of handler p is for an id no item is stored with, and the
\* step answers it otherwise than by the 500 of a failed store call
AnswersMissing(p, op) ==
  /\ req[p].op = op
  /\ pc[p] \in {"scan", "get", "upd", "rm"}
  /\ pc'[p] = "done"
  /\ Stored(req[p].id) = {}
  /\ ~StoreFail(p)

\* C5: for every resource, an update addressed to an id no item is stored
\* with responds 404 and leaves the table unchanged.
C5_UpdateMissingIs404 ==
  [][\A p \in Procs :
       AnswersMissing(p, "update") => resp'[p] = "404" /\ table' = table]_vars

\* C6: deleteJob answers success also when no item has the id (never 404),
\* and after a successful deleteJob no item with that jobId is stored.
C6_DeleteJobIdempotent ==
  \A p \in Procs :
    (res = "jobs" /\ req[p].op = "delete" /\ pc[p] = "done" /\ resp[p] # "500")
    => resp[p] = "200" /\ Stored(req[p].id) = {}

\* C6 witness: a deleteJob on the id of an item that is no longer stored
\* found nothing and returned success.
C6_DeleteOfDeleted ==
  \E p \in Procs :
    /\ res = "jobs"
    /\ req[p] = [op |-> "delete", id |-> "a", patch |-> <<>>]
    /\ pc[p] = "done"
    /\ Items[p] = {}
    /\ resp[p] = "200"
    /\ now = 2

\* C7: for every resource other than jobs, a delete addressed to an id no
\* item is stored with responds 404.
C7_DeleteMissingIs404 ==
  [][\A p \in Procs :
       (res # "jobs" /\ AnswersMissing(p, "delete")) => resp'[p] = "404"]_vars

\* C7 as amended: a delete addressed to an id no item is stored with
\* responds 404 for sarkari jobs and internships and success for walking
\* and certifications; it leaves the table unchanged.
C7_DeleteMissingByResource ==
  [][\A p \in Procs :
       (res # "jobs" /\ AnswersMissing(p, "delete"))
       => /\ resp'[p] = IF res \in {"sarkari", "internships"} THEN "404" ELSE "200"
          /\ table' = table]_vars

\* C7 witness: deleteSarkariJob or deleteInternship found nothing and
\* answered 404.
C7_NotFound ==
  \E p \in Procs :
    /\ res \in {"sarkari", "internships"}
    /\ req[p].op = "delete"
    /\ pc[p] = "done"
    /\ Items[p] = {}
    /\ resp[p] = "404"

\* C8: when the category does not change, updateJob and updateInternship
\* succeed with a field-level update of the unchanged key: category and id
\* keep their stored values, every other field of the patch is written,
\* the fields not in the patch keep their values, and lastUpdated is the
\* time of the call.
C8_FieldLevelUpdate ==
  [][\A p \in Procs :
       ( /\ res \in {"jobs", "internships"}
         /\ FieldUpdate(p)
         /\ PatchFields(req[p].patch) \ KeyFields(res) # {} )
       => LET old == table[UpdateKey(res, p)]
              new == table'[UpdateKey(res, p)]
          IN /\ resp'[p] = "200"
             /\ new.category = old.category
             /\ new.id = old.id
             /\ \A f \in {"title", "company", "link"} :
                  new[f] = IF PatchHas(req[p].patch, f)
                             THEN PatchGet(req[p].patch, f) ELSE old[f]
             /\ new.lastUpdated = now]_vars

\* every field of the patch carries the item's current value
NoOpPatch(patch, item) ==
  /\ Len(patch) > 0
  /\ \A i \in 1..Len(patch) : item[patch[i][1]] = patch[i][2]

\* C9: an update with a no-op patch, whatever the order of its keys, builds
\* a well-formed update expression, succeeds, and changes no attribute of
\* the item other than lastUpdated, which updateInternship sets to the time
\* of the call; no other item changes.
C9_NoOpPatch ==
  [][\A p \in Procs :
       ( /\ res \in {"jobs", "internships"}
         /\ FieldUpdate(p)
         /\ NoOpPatch(req[p].patch, table[UpdateKey(res, p)]) )
       => LET k == UpdateKey(res, p) IN
          /\ WellFormed(expr[p])
          /\ resp'[p] = "200"
          /\ \A f \in DOMAIN NoItem \ {"lastUpdated"} : table'[k][f] = table[k][f]
          /\ TouchesLastUpdated(res) => table'[k].lastUpdated = now
          /\ \A kk \in Keys \ {k} : table'[kk] = table[kk]]_vars

----------------------------------------------------------------------------
(* Properties of the listing endpoints *)

\* the field of an item that names its company, provider or organization
CompanyOf(endpoint, item) ==
  IF endpoint = "getSarkariJobs" THEN item.category ELSE item.company

\* the search rule of the listing pipeline: the query is contained, after
\* lower-casing and stripping, in the title or in the company of the item
QueryMatches(endpoint, item, q) ==
  \/ NormIncludes(item.title, Strip(toLowerCase(Chars(q))))
  \/ NormIncludes(CompanyOf(endpoint, item), Strip(toLowerCase(Chars(q))))

\* the stored items that pass the structured filters and the query
ResultSet(endpoint, category, q) ==
  {table[k] : k \in {kk \in Keys :
     /\ table[kk] # NoItem
     /\ FilterMatches(endpoint, table[kk], category)
     /\ q # Absent => QueryMatches(endpoint, table[kk], q)}}

\* C10: the total a paginating listing endpoint reports is the number of
\* stored items that pass the structured filters and the query q,
\* totalPages is ceil(total / limit), and a request for page 1 with
\* limit = total returns total items.
C10_PaginationTotals ==
  listed.endpoint \in Paginating =>
    /\ listed.total = Cardinality(ResultSet(listed.endpoint, listed.category, listed.q))
    /\ listed.totalPages = Ceil(listed.total, listed.limit)
    /\ (listed.page = 1 /\ listed.limit = listed.total) =>
         Len(listed.items) = listed.total

\* the items of a sequence
Range(s) == {s[i] : i \in 1..Len(s)}

\* the stored items that pass the structured filters of the last request
Candidates ==
  {table[k] : k \in {kk \in Keys :
     /\ table[kk] # NoItem
     /\ FilterMatches(listed.endpoint, table[kk], listed.category)}}

\* the search rule as the listing pipeline states it: field and query are
\* lower-cased and stripped, then compared by containment
RuleMatches(v, q) ==
  v # Absent /\ Includes(Strip(toLowerCase(Chars(v))), Strip(toLowerCase(Chars(q))))

\* C11: getJobs keeps the items whose role or companyName, lower-cased and
\* stripped of the characters outside [a-z0-9 ], contains the query
\* lower-cased and stripped likewise; the query "Node.js" keeps a job whose
\* role is "Node JS Developer".
C11_SearchNormalization ==
  (listed.endpoint = "getJobs" /\ listed.q # Absent) =>
    /\ \A item \in Candidates :
         item \in Range(listed.filtered)
           <=> RuleMatches(item.title, listed.q) \/ RuleMatches(item.company, listed.q)
    /\ listed.q = "q_dot" =>
         \A item \in Candidates : item.title = "t0" => item \in Range(listed.filtered)

\* the roles and company names the queries are contained in, worked out by
\* hand: "qq" in none; "node" in "node js developer" and "nodejs developer";
\* "acme" in "acme"; "nodejs" (from "Node.js") in "nodejs developer" only;
\* "js " in "node js developer" and "nodejs developer" but not in "go js",
\* which is "Go JS !" stripped and trimmed; "x" in none
MatchedBy(q) ==
  CASE q = "q_none" -> {}
    [] q = "q_node" -> {"t0", "t2"}
    [] q = "q_ACME" -> {"c0"}
    [] q = "q_dot" -> {"t2"}
    [] q = "q_js" -> {"t0", "t2"}
    [] q = "q_x" -> {}

\* C11 as amended: getJobs lower-cases and strips the query, and lower-cases,
\* strips and then trims each of role and companyName, and keeps the items
\* one of whose fields so normalized contains the normalized query; the
\* query "Node.js" (normalized "nodejs") keeps "NodeJS Developer" and does
\* not keep "Node JS Developer".
C11_TrimmedNormalization ==
  (listed.endpoint = "getJobs" /\ listed.q # Absent) =>
    \A item \in Candidates :
      item \in Range(listed.filtered)
        <=> item.title \in MatchedBy(listed.q) \/ item.company \in MatchedBy(listed.q)

\* C11 witness: getJobs answered the query "Node.js" over a table that holds
\* "Node JS Developer" and "NodeJS Developer", and kept only the latter.
C11_NodeJsQuery ==
  /\ listed.endpoint = "getJobs"
  /\ listed.q = "q_dot"
  /\ {item.title : item \in Candidates} = {"t0", "t2"}
  /\ {item.title : item \in Range(listed.filtered)} = {"t2"}

\* the field contains the query, case-insensitively
ContainsQuery(v, q) ==
  v # Absent /\ Includes(toLowerCase(Chars(v)), toLowerCase(Chars(q)))

\* C12: when q is present, a listing endpoint keeps exactly the stored
\* items that pass its structured filters and whose title/role or
\* company/provider contains the query case-insensitively.
C12_SearchFields ==
  (listed.endpoint # "none" /\ listed.q # Absent) =>
    \A item \in Candidates :
      item \in Range(listed.filtered)
        <=> \/ ContainsQuery(item.title, listed.q)
            \/ ContainsQuery(CompanyOf(listed.endpoint, item), listed.q)

----------------------------------------------------------------------------
(* Properties of create and fetch *)

\* the required fields of a job as the API documents them
JobRequired ==
  {"title", "company", "location", "salary", "jobDescription", "originalLink",
   "category", "expiresOn"}

\* the body carries a non-empty value for every documented required field
JobComplete(body) == \A f \in JobRequired : f \in DOMAIN body /\ body[f] # ""

\* the keys whose content a step changes
Changed == {k \in Keys : table'[k] # table[k]}

\* C13: createJob answers a body with a missing or empty required field
\* with 400 and writes nothing; for a complete body it issues one put, and
\* when the put completes it answers 201 and exactly one item has been
\* added, with status "active", an identifier generated by the server that
\* no item had before, and postedOn equal to the time of the call.
C13_CreateJob ==
  [][res = "jobs" =>
       /\ (pc["h1"] = "idle" /\ pc'["h1"] # "idle") =>
            IF JobComplete(req'["h1"].body)
              THEN pc'["h1"] = "cput" /\ table' = table
              ELSE pc'["h1"] = "done" /\ resp'["h1"] = "400" /\ table' = table
       /\ CreatePut("h1") =>
            /\ resp'["h1"] = "201"
            /\ \E k \in Keys :
                 /\ Changed = {k}
                 /\ table[k] = NoItem
                 /\ table'[k].status = "active"
                 /\ table'[k].id \in Ids
                 /\ ScanById(table, table'[k].id) = {}
                 /\ table'[k].postedAt = now
            /\ \A f \in JobRequired :
                 \E k \in Changed : table'[k][f] = req["h1"].body[f]]_vars

\* C13 witness: createJob answered 201 to a body that carries its own jobId,
\* status and no empty field, and the stored job is active under the
\* server's identifier.
C13_JobCreated ==
  /\ res = "jobs"
  /\ pc["h1"] = "done"
  /\ req["h1"].op = "create"
  /\ resp["h1"] = "201"
  /\ "status" \in DOMAIN req["h1"].body
  /\ \E k \in Keys : table[k] = newData["h1"] /\ table[k].status = "active"

\* handler h2 fetches the identifier of the item handler h1 has created
FetchOfCreated ==
  /\ Fetch("h2")
  /\ pc["h1"] = "done"
  /\ req["h1"].op = "create"
  /\ resp["h1"] = "201"
  /\ req["h2"].id = newData["h1"].id

StoredAsSubmitted(r) ==
  CASE r = "jobs" -> (RequiredFields(r) \cup OptionalFields(r)) \ {"id", "postedAt", "status"}
    [] r = "sarkari" -> (RequiredFields(r) \cup OptionalFields(r)) \ {"id", "status"}
    [] r = "internships" -> RequiredFields(r) \cup {"stipend"}
    [] OTHER -> RequiredFields(r)

ResolvesLogo(p, name) ==
  \/ /\ res = "internships"
     /\ pc[p] = "idle"
     /\ pc'[p] # "idle"
     /\ req'[p].op = "create"
     /\ \A f \in RequiredFields(res) : ~Falsy(BodyValue(req'[p].body, f))
     /\ name = req'[p].body.company
  \/ /\ res \notin Partitioned
     /\ Fetch(p)
     /\ table[<<NoPartition, req[p].id>>] # NoItem
     /\ name = BodyValue(table[<<NoPartition, req[p].id>>], "company")

\* the logo the step of handler p has resolved
ResolvedLogo(p) ==
  IF req'[p].op = "create" THEN newData'[p].companyLogo ELSE existing'[p].companyLogo

\* the final status of the lookup is a success (2xx)
Success(outcome) == outcome \in {"200", "204"}

\* C15: a step that runs the logo resolver does not fail because of it: the
\* create goes on to its put and the fetch answers 200; the logo is the
\* placeholder when the name is missing or no string and whenever the
\* lookup ends in a non-success status, a timeout or a network failure.
C15_LogoNeverFails ==
  [][\A p \in Procs : \A name \in {"c0", Absent, NotAString} :
       ResolvesLogo(p, name) =>
         /\ resp'[p] # "500"
         /\ pc'[p] = IF req'[p].op = "create" THEN "cput" ELSE "done"
         /\ ResolvedLogo(p) \in {LogoUrl, Placeholder}
         /\ name \in {Absent, NotAString} => ResolvedLogo(p) = Placeholder
         /\ ~Success(req'[p].http) => ResolvedLogo(p) = Placeholder]_vars

----------------------------------------------------------------------------
(* Properties of the CV analysis *)

\* the outcome of the scoring call of handler p, Absent before the call
ScoringOutcome(p) ==
  IF \E i \in 1..Len(calls) : calls[i].by = p /\ calls[i].to = "scoring"
    THEN (CHOOSE c \in Range(calls) : c.by = p /\ c.to = "scoring").outcome
    ELSE Absent

\* the scoring call of handler p failed: the request failed or timed out,
\* or the answer was no JSON
ScoringFailed(p) == ScoringOutcome(p) \in {"fails", "timeout", "unparsable"}

\* the scoring call of handler p was answered with a payload that has no
\* matchingSkills list
NoSkillsPayload(p) == ScoringOutcome(p) \in {"sentinel", "null"}

\* C16: the scoring call never propagates a failure.  When the call fails,
\* times out or is answered with text that cannot be parsed, the analysis
\* of the response is a fallback whose compatibility score lies in 0..100
\* and that is the same on every failure, and the CV analysis answers 200;
\* it answers 200 as well when the payload has no matchingSkills list.
C16_ScoringNeverFails ==
  /\ \A p \in Procs :
       pc[p] = "done" /\ ScoringFailed(p) =>
         /\ resp[p] = "200"
         /\ sent[p].kind = "analysis"
         /\ sent[p].analysis.compatibilityScore \in 0..100
  /\ \A p, q \in Procs :
       pc[p] = "done" /\ pc[q] = "done" /\ ScoringFailed(p) /\ ScoringFailed(q) =>
         sent[p].kind = "analysis" /\ sent[q].kind = "analysis"
           /\ sent[p].analysis = sent[q].analysis
  /\ \A p \in Procs : pc[p] = "done" /\ NoSkillsPayload(p) => resp[p] = "200"

\* the key of a request names a PDF
PdfKeys == {"cv.pdf", "CV.PDF"}

\* the request of handler p is one the validations of the CV analysis
\* turn down
Invalid(p) ==
  \/ req[p].cvS3Key \notin PdfKeys
  \/ req[p].cvS3Key \in {Absent, ""}
  \/ req[p].jobId \in {Absent, ""} /\ req[p].internshipId \in {Absent, ""}

\* C19: a CV analysis whose cvS3Key does not end in '.pdf', whatever the
\* case of its letters, or that has no cvS3Key, or neither a jobId nor an
\* internshipId, is answered 400, and no scan of the store, no fetch of
\* the blob and no scoring call was issued for it.
C19_ValidatedFirst ==
  \A p \in Procs :
    req[p].op = "analyze" /\ Invalid(p) =>
      /\ pc[p] = "done" /\ resp[p] = "400"
      /\ \A i \in 1..Len(calls) : calls[i].by # p

\* a request for job a with the key of a Word document was answered 400
\* after the request before it, with a PDF key, went as far as the scoring
C19_NonPdfRejected ==
  /\ req["h2"].op = "analyze" /\ req["h2"].cvS3Key = "cv.doc" /\ req["h2"].jobId = "a"
  /\ resp["h2"] = "400"
  /\ req["h1"].op = "analyze" /\ req["h1"].cvS3Key = "CV.PDF" /\ resp["h1"] = "200"
  /\ \E i \in 1..Len(calls) : calls[i].by = "h1" /\ calls[i].to = "scoring"

----------------------------------------------------------------------------
(* Properties of the bulk uploads *)

\* the writes handler p has issued, in issue order
WritesOf(p) == SelectSeq(calls, LAMBDA c : c.by = p)

\* the number of rows a write holds
RowsIn(w) == w.rows[2] - w.rows[1] + 1

RECURSIVE Committed(_)
\* the number of rows of the writes of w that the store accepted
Committed(w) ==
  IF w = <<>> THEN 0
  ELSE (IF Head(w).outcome = "ok" THEN RowsIn(Head(w)) ELSE 0) + Committed(Tail(w))

\* a write of handler p failed after an earlier one had been accepted
FailedPartway(p) ==
  \E i, j \in 1..Len(WritesOf(p)) :
    i < j /\ WritesOf(p)[i].outcome = "ok" /\ WritesOf(p)[j].outcome = "fails"

\* C17: in every bulk upload, when a write fails after earlier writes were
\* accepted, the response is a 200 or a 201 that carries the number of
\* rows written, which is the number of rows the store accepted, and an
\* error list that is not empty.
C17_PartialSuccess ==
  \A p \in Procs :
    req[p].op = "bulk" /\ pc[p] = "done" /\ FailedPartway(p) =>
      /\ resp[p] \in {"200", "201"}
      /\ sent[p].kind = "bulk"
      /\ sent[p].successful = Committed(WritesOf(p))
      /\ sent[p].errors >= 1

\* C18: a bulk upload of n valid rows none of whose writes fails has
\* issued (n + 24) \div 25 writes of at most 25 rows each; the first starts
\* at row 1, each next one at the row after the one before it ends, and
\* the last ends at row n.
C18_BatchesOf25 ==
  \A p \in Procs :
    req[p].op = "bulk" /\ pc[p] = "done" /\ req[p].file
      /\ (\A i \in 1..Len(WritesOf(p)) : WritesOf(p)[i].outcome = "ok") =>
      LET w == WritesOf(p)
          n == req[p].valid
      IN /\ Len(w) = (n + 24) \div 25
         /\ \A i \in 1..Len(w) : RowsIn(w[i]) \in 1..25
         /\ \A i \in 1..Len(w) : w[i].rows[1] = (IF i = 1 THEN 1 ELSE w[i - 1].rows[2] + 1)
         /\ n > 0 => Len(w) > 0 /\ w[Len(w)].rows[2] = n

----------------------------------------------------------------------------
(* Properties of the error responses *)

\* C20: when the store call of a handler fails, the response is a 500
\* whose body carries the handler's own text, and carries the message of
\* the underlying error only when the process runs in development mode.
C20_GenericError ==
  \A p \in Procs :
    req[p].op \in Operations /\ pc[p] = "done"
      /\ (\E i \in 1..Len(calls) : calls[i].by = p /\ calls[i].outcome = "fails") =>
      /\ resp[p] = "500"
      /\ sent[p].kind = "error"
      /\ sent[p].underlying # Absent => req[p].mode = "development"

----------------------------------------------------------------------------
(* Properties of the listings, continued *)

\* the stored items
StoredItems == {table[k] : k \in {kk \in Keys : table[kk] # NoItem}}

\* a batch attribute that is absent, an empty list or an empty string
NoBatchGiven(b) == b \in {NoBatch, ListBatch(<<>>), StrBatch(<<>>)}

\* the batch attributes that contain the batch of a request
Containing(batch) ==
  CASE batch = "2024" ->
         {StrBatch(Y2024), StrBatch(Y2024 \o <<",", " ">> \o Y2025),
          ListBatch(<<Y2024>>), ListBatch(<<Y2025, Y2024>>)}
    [] batch = "202" -> {StrBatch(Y2024), StrBatch(Y2024 \o <<",", " ">> \o Y2025)}
    [] OTHER -> {}

\* C21: a listing of the jobs with batch "Not Mentioned" matches exactly
\* the active jobs whose batch is absent, an empty list or an empty
\* string; with any other batch it matches exactly the active jobs whose
\* batch contains the value (as a substring of a string, as an element of
\* a list).
C21_BatchSentinel ==
  listed # NoList /\ "batch" \in DOMAIN listed /\ listed.batch # Absent =>
    Range(listed.filtered) =
      {item \in StoredItems :
         /\ item.status = "active"
         /\ IF listed.batch = "Not Mentioned" THEN NoBatchGiven(item.batch)
            ELSE item.batch \in Containing(listed.batch)}

\* a listing with batch "Not Mentioned" has matched a job without batch
\* and left out a job of batch 2024
C21_OnlyUnbatched ==
  /\ listed # NoList /\ "batch" \in DOMAIN listed /\ listed.batch = "Not Mentioned"
  /\ Len(listed.filtered) = 1 /\ listed.filtered[1].batch = NoBatch
  /\ \E item \in StoredItems : item.status = "active" /\ item.batch = ListBatch(<<Y2024>>)

\* the recency of an item: its timestamp, the epoch for an item without
Recency(item) == IF item.postedAt = NoTime THEN 0 ELSE item.postedAt

\* C22: the filtered set of every listing is in descending order of the
\* recency timestamp, an item without timestamp counting as the oldest.
C22_NewestFirst ==
  listed # NoList =>
    \A i, j \in 1..Len(listed.filtered) :
      i < j => Recency(listed.filtered[i]) >= Recency(listed.filtered[j])

\* the logo lookups issued so far
Lookups == SelectSeq(calls, LAMBDA c : c.to = "logo")

\* C23: a listing of the walk-ins looks up a logo for the items of the
\* returned page only: as many lookups as the page has items, at most
\* limit.
C23_LookupsPerPage ==
  listed # NoList /\ listed.endpoint = "getAllWalking" =>
    Len(Lookups) = Len(listed.items) /\ Len(Lookups) <= listed.limit

----------------------------------------------------------------------------
(* Properties of the bulk uploads, continued *)

\* C24: the writes of a bulk upload are applied one after the other: no
\* write is issued once a write has failed, so no write follows a failed
\* one.
C24_SequentialBatches ==
  \A p \in Procs :
    req[p].op = "bulk" =>
      \A i, j \in 1..Len(WritesOf(p)) :
        i < j => WritesOf(p)[i].outcome = "ok"

----------------------------------------------------------------------------
(* Properties of the update and delete handlers, continued *)

\* C25: the field-level update of updateJob, updateSarkariJob and
\* updateInternship creates no item: a key that holds no item when the
\* update is applied holds none afterwards.
C25_NoResurrection ==
  [][\A p \in Procs :
       res \in Partitioned /\ FieldUpdate(p) =>
         \A k \in Keys : table[k] = NoItem => table'[k] = NoItem]_vars

\* the sort keys under which table t holds an item
SortKeys(t) == {k[2] : k \in {kk \in Keys : t[kk] # NoItem}}

\* C26: the step that completes a successful updateJob, updateInternship or
\* updateWalking of identifier id leaves an item with that identifier
\* under sort key id, whatever the patch holds, and neither adds nor
\* removes a sort key.
C26_IdentifierKept ==
  [][\A p \in Procs :
       ( /\ res \in {"jobs", "internships", "walking"}
         /\ req[p].op = "update"
         /\ pc[p] # "done" /\ pc'[p] = "done" /\ resp'[p] = "200" )
       => /\ \E k \in Keys :
               k[2] = req[p].id /\ table'[k] # NoItem /\ table'[k].id = req[p].id
          /\ SortKeys(table') = SortKeys(table)]_vars

\* the responses sent to the client of p
Responses(p) == SelectSeq(calls, LAMBDA c : c.by = p /\ c.to = "client")

\* C27: a handler never responds twice, and one that has finished has
\* responded exactly once.
C27_OneResponse ==
  \A p \in Procs :
    /\ Len(Responses(p)) <= 1
    /\ pc[p] = "done" => Len(Responses(p)) = 1

\* a successful deleteJob of p has just completed
DeletedJob(p) ==
  /\ res = "jobs"
  /\ pc[p] = "done" /\ req[p].op = "delete" /\ resp[p] = "200"

\* C28: after a successful deleteJob(id) without concurrent writers no
\* category holds an item with jobId = id, however many the scan found.
C28_AllMatchesDeleted ==
  \A p \in Procs :
    DeletedJob(p) =>
      /\ ScanById(table, req[p].id) = {}
      /\ \A k \in Keys : k[2] = req[p].id => table[k] = NoItem

\* witness of C28: the scan of the delete found the job under two
\* categories and none is left
C28_DuplicateDeleted ==
  /\ DeletedJob("h1")
  /\ Cardinality(Items["h1"]) = 2
  /\ ScanById(table, req["h1"].id) = {}

\* the response for page i of the listing that produced l: the same
\* endpoint, filters, limit and order of the items
PageOf(l, i) == PageResponse(l.endpoint, l.filtered, l.category, l.q, i, l.halves)

RECURSIVE PagesUpTo(_, _)
\* the items of pages 1..n of that listing, in page order
PagesUpTo(l, n) == IF n = 0 THEN <<>> ELSE PagesUpTo(l, n - 1) \o PageOf(l, n).items

\* C29: for any limit of at least 1, the pages 1..totalPages of a
\* paginating endpoint, concatenated, are the sorted filtered set; a page
\* beyond totalPages is empty; hasNext holds exactly for a page below
\* totalPages and hasPrev for one above 1.
C29_PagesPartition ==
  listed.endpoint \in Paginating =>
    /\ PagesUpTo(listed, listed.totalPages) = listed.filtered
    /\ \A i \in 1..(listed.totalPages + 2) :
         /\ i > listed.totalPages => PageOf(listed, i).items = <<>>
         /\ PageOf(listed, i).hasNext <=> i < listed.totalPages
         /\ PageOf(listed, i).hasPrev <=> i > 1
    /\ listed.hasNext <=> listed.page < listed.totalPages
    /\ listed.hasPrev <=> listed.page > 1

\* a run of the sweep by p has completed without error
Swept(p) == pc[p] = "done" /\ req[p].op = "sweep" /\ resp[p] = "swept"

\* the job under key k was due at the start of the run of p: active, with
\* an expiresOn that denotes an earlier instant
Due(p, k) ==
  /\ req[p].before[k] # NoItem
  /\ req[p].before[k].status = "active"
  /\ req[p].before[k].expiresOn.instant < req[p].start

\* C30: after a run of the sweep that completed without error, every job
\* that was due at its start is the job it was with status expired, every
\* other job is unchanged, and no job that was due is in a listing of
\* getJobs.
C30_SweepExpiresDueJobs ==
  \A p \in Procs :
    Swept(p) =>
      \A k \in Keys :
        /\ Due(p, k) => table[k] = [req[p].before[k] EXCEPT !.status = "expired"]
        /\ ~Due(p, k) => table[k] = req[p].before[k]
        /\ Due(p, k) /\ listed.endpoint = "getJobs" =>
             \A i \in 1..Len(listed.filtered) :
               KeyOf("jobs", listed.filtered[i]) # k

====
